---- MODULE Spec2Model ----
(***************************************************************************)
(* The useSor composable (src/unnamed/part_000): the trade orchestrator    *)
(* that quotes a swap through the SorManager or the wrap adapter, refines  *)
(* the displayed amounts with queryBatchSwap and submits the trade.        *)
(*                                                                         *)
(* Every `await` of the source is a point where the call is suspended and  *)
(* any other handler may run; the code between two awaits is one action.   *)
(* Decimal strings are sequences of one-character strings, so that         *)
(* parseFixed / formatFixed / formatAmount are computed, not assumed.      *)
(* BigNumber is unbounded; the fixed-point scale 10^18 of the source is    *)
(* 10^WadDecimals here so that every product fits TLC's integers.          *)
(***************************************************************************)
EXTENDS Integers, Sequences, FiniteSets, TLC

\* ---------------------------------------------------------------- bounds
\* handleAmountChange calls started in one behaviour
MaxCalls == 2
\* updateTradeAmounts calls started in one behaviour
MaxUpdates == 1
\* trade() calls started in one behaviour
MaxTrades == 1
\* trade() calls that can overlap in OverlapSpec
MaxOverlap == 2
\* exit / queryExit calls made on one ExactInExitHandler
MaxExitCalls == 2
\* user edits (amount field, token pair) in one behaviour
MaxEdits == 1
\* decimals of the fixed-point scale ONE (18 in the source)
WadDecimals == 4
\* fetchPools calls started in one behaviour of QuoteSpec
MaxFetches == 2
MaxDecimals == 3
MaxOtherOps == 2

\* ------------------------------------------------------- program constants
\* maximumSignificantDigits of formatAmount
MaxSignificantDigits == 6

RECURSIVE Pow10(_)
Pow10(d) == IF d = 0 THEN 1 ELSE 10 * Pow10(d - 1)

ONE == Pow10(WadDecimals)
Zero == 0
MIN_PRICE_IMPACT == ONE \div 10000
HIGH_PRICE_IMPACT_THRESHOLD == (5 * ONE) \div 100

Max(a, b) == IF a >= b THEN a ELSE b

\* the value a BigNumber/parse operation has when it throws
Throws == -1

\* ---------------------------------------------------------- decimal strings
DigitChars == <<"0", "1", "2", "3", "4", "5", "6", "7", "8", "9">>
IsDigit(ch) == \E i \in 1..10 : DigitChars[i] = ch
DigitVal(ch) == (CHOOSE i \in 1..10 : DigitChars[i] = ch) - 1

RECURSIVE DigitsToNat(_)
DigitsToNat(ds) ==
  IF ds = <<>> THEN 0
  ELSE 10 * DigitsToNat(SubSeq(ds, 1, Len(ds) - 1)) + DigitVal(ds[Len(ds)])

RECURSIVE NatToDigits(_)
NatToDigits(n) ==
  IF n < 10 THEN <<DigitChars[n + 1]>>
  ELSE NatToDigits(n \div 10) \o <<DigitChars[(n % 10) + 1]>>

Zeros(k) == [i \in 1..k |-> "0"]

RECURSIVE StripTrailingZeros(_)
StripTrailingZeros(f) ==
  IF Len(f) > 0 /\ f[Len(f)] = "0"
  THEN StripTrailingZeros(SubSeq(f, 1, Len(f) - 1))
  ELSE f

DotPositions(s) == {i \in 1..Len(s) : s[i] = "."}
WholePart(s) ==
  IF DotPositions(s) = {} THEN s
  ELSE SubSeq(s, 1, (CHOOSE i \in DotPositions(s) : TRUE) - 1)
FractionPart(s) ==
  IF DotPositions(s) = {} THEN <<>>
  ELSE SubSeq(s, (CHOOSE i \in DotPositions(s) : TRUE) + 1, Len(s))

\* ethers parseFixed / parseUnits on a non-negative decimal string: Throws on
\* "", ".", a non-numeric character, two points, or more fraction digits
\* (after trailing zeros are trimmed) than `decimals`.
ParseFixed(s, decimals) ==
  IF \/ Len(s) = 0
     \/ \E i \in 1..Len(s) : ~IsDigit(s[i]) /\ s[i] # "."
     \/ s = <<".">>
     \/ Cardinality(DotPositions(s)) > 1
  THEN Throws
  ELSE LET fraction == StripTrailingZeros(FractionPart(s))
       IN IF Len(fraction) > decimals THEN Throws
          ELSE DigitsToNat(WholePart(s)) * Pow10(decimals)
               + DigitsToNat(fraction \o Zeros(decimals - Len(fraction)))

\* formatFixed printing the whole units only
FormatFixedWholeUnits(n, decimals) == NatToDigits(n \div Pow10(decimals))

\* ethers formatFixed / formatUnits on a non-negative value: the fraction is
\* padded to `decimals` digits and its trailing zeros stripped down to one
\* digit ("1.0"); with decimals = 0 there is no point at all.
FormatFixed(n, decimals) ==
  LET digits   == NatToDigits(n % Pow10(decimals))
      padded   == Zeros(decimals - Len(digits)) \o digits
      stripped == StripTrailingZeros(padded)
      fraction == IF stripped = <<>> THEN <<"0">> ELSE stripped
      whole    == NatToDigits(n \div Pow10(decimals))
  IN IF decimals = 0 THEN whole ELSE whole \o <<".">> \o fraction

\* Intl.NumberFormat with maximumSignificantDigits and no grouping, as fNum2
\* applies it to the value n / 10^decimals: round half up to the significant
\* digits, print with no trailing zeros and no trailing point.
FNum2(n, decimals) ==
  LET k        == Len(NatToDigits(n))
      p        == IF k > MaxSignificantDigits
                  THEN Pow10(k - MaxSignificantDigits) ELSE 1
      r        == ((n + p \div 2) \div p) * p
      digits   == NatToDigits(r % Pow10(decimals))
      fraction == StripTrailingZeros(Zeros(decimals - Len(digits)) \o digits)
      whole    == NatToDigits(r \div Pow10(decimals))
  IN IF fraction = <<>> THEN whole ELSE whole \o <<".">> \o fraction

\* formatAmount(amount): fNum2 of Number(amount) for a decimal string
FormatAmount(amount) ==
  FNum2(ParseFixed(amount, Len(FractionPart(amount))), Len(FractionPart(amount)))

\* the displayed amount the code derives from a fixed-point amount
\* (amount.gt(0) ? formatAmount(formatUnits(amount, decimals)) : '')
DisplayAmount(amount, decimals) ==
  IF amount > 0 THEN FormatAmount(FormatFixed(amount, decimals)) ELSE <<>>

\* ------------------------------------------------------------ environment
\* Token addresses known to getToken, with their decimals (18 and 6 in the
\* deployed token lists; small here so that scaled amounts stay small).
NATIVE_ASSET_ADDRESS == "ETH"
AddressZero == "0x0"
TokenDecimals ==
  [DAI |-> 2, USDC |-> 1, ETH |-> 2, WETH |-> 2, stETH |-> 2, wstETH |-> 2,
   NEW1 |-> 2, NEW2 |-> 1]
\* the tokens of the token lists; any other address is unknown to getToken
\* until injectTokens has fetched it
ListedTokens == {"DAI", "USDC", "ETH", "WETH", "stETH", "wstETH"}
getToken(address) == address \in ListedTokens
getTokenDecimals(tokenAddress) == TokenDecimals[tokenAddress]

\* appNetworkConfig.addresses.wstETH
wstETH == "wstETH"

\* wstETH per stETH as the wstETH contract reports it (0.9 here), in the
\* precision of ONE
StEthRate == (9 * ONE) \div 10

\* convertStEthWrap({ amount, isWrap }): stETH into wstETH when isWrap, the
\* inverse otherwise
convertStEthWrap(amount, isWrap) ==
  IF isWrap THEN (amount * StEthRate) \div ONE
  ELSE (amount * ONE) \div StEthRate

\* The token selections the user can make: a routed pair, the wrap and the
\* unwrap of the native asset, and a pair whose input token is not chosen yet.
Pairs ==
  { [tokenIn |-> "DAI",  tokenOut |-> "USDC", wrapType |-> "NonWrap"],
    [tokenIn |-> "ETH",  tokenOut |-> "WETH", wrapType |-> "Wrap"],
    [tokenIn |-> "WETH", tokenOut |-> "ETH",  wrapType |-> "Unwrap"],
    [tokenIn |-> "",     tokenOut |-> "USDC", wrapType |-> "NonWrap"] }

\* The amounts the user can type into the edited field.
AmountInputs == { <<>>, <<"0">>, <<"1">> }

\* What the routing engine can answer to getBestSwap: no route, or a route
\* with its return amount and its market spot price (marketSpNormalised as
\* parseUnits(Number(.).toFixed(18)) scales it). For the amount "1" the
\* routes give a computed impact of exactly 0.05 and of -0.0099.
RouteAnswers ==
  { [hasSwaps |-> FALSE, returnAmount |-> 0,  marketSpNormalised |-> 0],
    [hasSwaps |-> TRUE,  returnAmount |-> 47, marketSpNormalised |-> 20],
    [hasSwaps |-> TRUE,  returnAmount |-> 10, marketSpNormalised |-> 101] }

\* What queryBatchSwap can answer: fewer than two deltas, or the absolute
\* deltas of the route's assets in the order of result.tokenAddresses.
DeltaAnswers == { <<>>, <<120, 12>> }

\* slippageBufferRate in basis points (0.01 = 100)
SlippageRates == {0, 50, 100}

\* ------------------------------------------------------------------ state
VARIABLES
  exactIn, tokenInAddressInput, tokenOutAddressInput,
  tokenInAmountInput, tokenOutAmountInput, wrapType, slippageBufferRate,
  handleAmountsOnFetchPools,
  sorManager, hasPoolData, snapshot, costOutputToken, selectedPools,
  pools, sorReturn, trading, confirming, priceImpact, latestTxHash,
  poolsLoading, validationErrors, submissionError,
  hac, uta, trd, fetching,
  calls, transactions, nextId, edits,
  isMainnet, mount, conversion, otherInstance, exitHandler

props == <<exactIn, tokenInAddressInput, tokenOutAddressInput, wrapType,
           slippageBufferRate, handleAmountsOnFetchPools>>
amounts == <<tokenInAmountInput, tokenOutAmountInput>>
manager == <<sorManager, hasPoolData, snapshot, costOutputToken, selectedPools>>
quote == <<pools, sorReturn, priceImpact, validationErrors>>
exec == <<trading, confirming, latestTxHash, submissionError, transactions>>
\* what surrounds the calls of one useSor instance: the network, the mount
\* callback, a fixed-point conversion on its own, another useSor instance,
\* the ExactInExitHandler of a pool
context == <<isMainnet, mount, conversion, otherInstance, exitHandler>>
vars == <<props, amounts, manager, quote, exec, poolsLoading,
          hac, uta, trd, fetching, calls, nextId, edits, context>>

CallIds == 1..MaxCalls
UpdateIds == 1..MaxUpdates
TradeIds == DOMAIN trd

\* a handleAmountChange call that has not started
IdleCall ==
  [pc |-> "idle", path |-> "none", amount |-> <<>>, exactIn |-> TRUE,
   tokenIn |-> "", tokenOut |-> "", wrapType |-> "NonWrap", scaled |-> 0,
   resultId |-> 0,
   returnAmount |-> 0, marketSp |-> 0, piAmount |-> 0, calc |-> 0,
   edits |-> 0,
   snapshot |-> 0, routeSnapshot |-> 0]
IdleUpdate ==
  [pc |-> "idle", result |-> 0, exactIn |-> TRUE, seen |-> 0, wrote |-> FALSE]
IdleTrade ==
  [pc |-> "idle", fn |-> "none", wrapper |-> "", amountIn |-> 0,
   amountOut |-> 0, limit |-> 0, hash |-> 0, error |-> "null",
   executorCalls |-> 0, alone |-> TRUE]

\* sorReturn as constructed: no swaps, an empty result
InitialSorReturn ==
  [hasSwaps |-> FALSE, returnAmount |-> Zero, marketSpNormalised |-> 0,
   result |-> [id |-> 0, tokenAddresses |-> <<>>, swaps |-> <<>>]]

\* onMounted before it runs
Unmounted == [pc |-> "unmounted", unknownAssets |-> <<>>, call |-> 0]
\* no conversion under way
NoConversion == [pc |-> "none", amount |-> <<>>, decimals |-> 0, fixed |-> 0,
                 text |-> <<>>]
\* a second useSor instance of the same page that has done nothing
OtherIdle == [ops |-> 0, last |-> "none"]

\* ExactInExitHandler: the calls of exit and queryExit made on one instance
ExitIds == 1..MaxExitCalls

\* lastExitRes while it is undefined
NoExitRes == [to |-> "", data |-> <<>>]

\* an exit / queryExit call that has not started
IdleExit ==
  [kind |-> "none", params |-> [bptIn |-> 0, tokenOut |-> "", tokenInfo |-> {}],
   pc |-> "idle", built |-> NoExitRes, queried |-> FALSE, failure |-> "none",
   sent |-> NoExitRes]

\* the handler after its constructor: lastExitRes is undefined
NoExits == [lastExitRes |-> NoExitRes, op |-> [i \in ExitIds |-> IdleExit]]

\* The surroundings of an instance that is looked at on its own.
Alone ==
  /\ isMainnet = TRUE
  /\ exitHandler = NoExits
  /\ mount = Unmounted
  /\ conversion = NoConversion
  /\ otherInstance = OtherIdle

\* the state of useSor after construction, the trade() calls apart
ConstructedState ==
  /\ sorManager = FALSE
  /\ hasPoolData = FALSE
  /\ snapshot = 0
  /\ costOutputToken = ""
  /\ selectedPools = 0
  /\ pools = 0
  /\ sorReturn = InitialSorReturn
  /\ trading = FALSE
  /\ confirming = FALSE
  /\ priceImpact = 0
  /\ latestTxHash = 0
  /\ poolsLoading = TRUE
  /\ validationErrors = [highPriceImpact |-> FALSE]
  /\ submissionError = "null"
  /\ hac = [c \in CallIds |-> IdleCall]
  /\ uta = [u \in UpdateIds |-> IdleUpdate]
  /\ fetching = 0
  /\ calls = [setCostOutputToken |-> 0, getBestSwap |-> 0, getWrapOutput |-> 0,
              queryBatchSwap |-> 0, fetchPoolsWithoutManager |-> 0]
  /\ transactions = <<>>
  /\ nextId = 1
  /\ edits = 0

InitState ==
  /\ ConstructedState
  /\ trd = [t \in 1..MaxTrades |-> IdleTrade]

\* The props the component passes at construction.
Init ==
  /\ InitState
  /\ Alone
  /\ exactIn = TRUE
  /\ tokenInAmountInput \in AmountInputs
  /\ tokenOutAmountInput = <<>>
  /\ \E p \in Pairs :
        /\ tokenInAddressInput = p.tokenIn
        /\ tokenOutAddressInput = p.tokenOut
        /\ wrapType = p.wrapType
  /\ slippageBufferRate = 100
  /\ handleAmountsOnFetchPools = TRUE

\* --------------------------------------------------------- helper functions
\* resetInputAmounts without its last line (returnAmount is kept)
ResetInputAmountsKeepingReturn(amount) ==
  /\ tokenInAmountInput' = amount
  /\ tokenOutAmountInput' = amount
  /\ priceImpact' = 0
  /\ sorReturn' = [sorReturn EXCEPT !.hasSwaps = FALSE]

\* resetInputAmounts(amount)
ResetInputAmounts(amount) ==
  /\ tokenInAmountInput' = amount
  /\ tokenOutAmountInput' = amount
  /\ priceImpact' = 0
  /\ sorReturn' = [sorReturn EXCEPT !.hasSwaps = FALSE, !.returnAmount = Zero]

\* lines 323-324 clearing the edited side as well
ClearBothAmounts ==
  /\ tokenInAmountInput' = <<>>
  /\ tokenOutAmountInput' = <<>>

\* if (exactIn.value) tokenOutAmountInput.value = ''; else tokenInAmountInput.value = ''
ClearDerivedAmount ==
  IF exactIn
  THEN tokenOutAmountInput' = <<>> /\ UNCHANGED tokenInAmountInput
  ELSE tokenInAmountInput' = <<>> /\ UNCHANGED tokenOutAmountInput

\* the wrap adapter's quote: the native asset wraps 1:1, stETH wraps into
\* wstETH at the staking rate
getWrapOutput(wrapper, type, amount) ==
  IF wrapper = wstETH THEN convertStEthWrap(amount, type = "Wrap") ELSE amount

\* adjustedPiAmount(amount, address) with isWrap = true: only an amount whose
\* address is wstETH is converted, and only on mainnet
adjustedPiAmount(amount, address) ==
  IF address = wstETH /\ isMainnet THEN convertStEthWrap(amount, TRUE)
  ELSE amount

\* the value of calcPriceImpact when BigNumber.div throws (below every impact)
CalcThrows == Throws - ONE

\* calcPriceImpact dividing once, by tokenAmount * marketSp
calcPriceImpactOnce(tokenDecimals, tokenAmount, tokenAmountScaled, marketSp) ==
  IF tokenAmount = 0 \/ marketSp = 0 THEN CalcThrows
  ELSE ((tokenAmountScaled * Pow10(tokenDecimals) * Pow10(WadDecimals))
        \div (tokenAmount * marketSp)) - ONE

\* calcPriceImpact(tokenDecimals, tokenAmount, tokenAmountScaled, swapReturn);
\* BigNumber.div throws on a zero divisor
calcPriceImpact(tokenDecimals, tokenAmount, tokenAmountScaled, marketSp) ==
  IF tokenAmount = 0 \/ marketSp = 0 THEN CalcThrows
  ELSE LET divScale       == Pow10(tokenDecimals)
           wadScale       == Pow10(WadDecimals)
           effectivePrice == (tokenAmountScaled * divScale) \div tokenAmount
       IN ((effectivePrice * wadScale) \div marketSp) - ONE
\* the price impact without the floor of lines 370-373
UnflooredPriceImpact(priceImpactCalc) == priceImpactCalc

\* Math.max(Number(formatUnits(priceImpactCalc)), MIN_PRICE_IMPACT)
FlooredPriceImpact(priceImpactCalc) == Max(priceImpactCalc, MIN_PRICE_IMPACT)

\* priceImpact.value >= HIGH_PRICE_IMPACT_THRESHOLD
IsHighPriceImpact(impact) == impact >= HIGH_PRICE_IMPACT_THRESHOLD

\* updateTradeAmounts without the check of line 209
NeverStale(result) == FALSE

\* result !== sorReturn.value.result
IsStaleResult(result) == result # sorReturn.result.id

\* getMaxIn / getMinOut: parseFixed(String(1 + slippageBufferRate), 18)
SlippageFactor == ONE + (slippageBufferRate * ONE) \div 10000
\* BigNumber a.mul(b).div(c): the truncated quotient of the exact product,
\* computed from the quotient and remainder of a by c so that no intermediate
\* value exceeds the integers TLC evaluates
MulDiv(a, b, c) == (a \div c) * b + ((a % c) * b) \div c
getMaxIn(amount) == MulDiv(amount, SlippageFactor, ONE)
\* getMinOut scaling the amount up instead of down
getMinOutScaledUp(amount) == MulDiv(amount, SlippageFactor, ONE)
getMinOut(amount) == MulDiv(amount, ONE, SlippageFactor)

\* the address under which result.tokenAddresses lists a token
AssetAddress(address) ==
  IF address = NATIVE_ASSET_ADDRESS THEN AddressZero ELSE address

\* Array.prototype.indexOf, 1-based; 0 when absent (-1 in the source)
IndexOf(seq, x) ==
  IF \E i \in 1..Len(seq) : seq[i] = x
  THEN CHOOSE i \in 1..Len(seq) : seq[i] = x /\ \A j \in 1..(i - 1) : seq[j] # x
  ELSE 0

\* ------------------------------------------------------ handleAmountChange
\* lines 270-326 that also clear the flag and the pools when the amount is zero
StartFrameResettingOnZero ==
  LET zero == IF exactIn THEN tokenInAmountInput \in {<<>>, <<"0">>}
                         ELSE tokenOutAmountInput \in {<<>>, <<"0">>}
  IN /\ pools' = IF zero THEN 0 ELSE pools
     /\ validationErrors' =
          IF zero THEN [validationErrors EXCEPT !.highPriceImpact = FALSE]
                  ELSE validationErrors

\* lines 270-326 assign neither pools nor state.validationErrors: the only
\* assignments are those of lines 418-421
StartFrame == UNCHANGED <<pools, validationErrors>>

\* The call from its entry to its first await or return. poolData is the
\* value of sorManager && sorManager.hasPoolData() when line 322 reads it.
HandleAmountChangeStart(c, poolData) ==
  LET amount  == IF exactIn THEN tokenInAmountInput ELSE tokenOutAmountInput
      started == [hac[c] EXCEPT !.amount = amount, !.exactIn = exactIn,
                                !.tokenIn = tokenInAddressInput,
                                !.tokenOut = tokenOutAddressInput,
                                !.wrapType = wrapType, !.edits = edits]
      return(path) ==
        hac' = [hac EXCEPT ![c] = [started EXCEPT !.pc = "done", !.path = path]]
  IN
  /\ hac[c].pc = "idle"
  /\ \A b \in CallIds : b < c => hac[b].pc # "idle"
  /\ UNCHANGED <<selectedPools, nextId>>
  /\ StartFrame
  /\ IF amount = <<>> \/ amount = <<"0">>
     THEN /\ ResetInputAmounts(amount)
          /\ return("zero")
          /\ UNCHANGED <<calls, costOutputToken>>
     ELSE IF tokenInAddressInput = "" \/ tokenOutAddressInput = ""
     THEN /\ ClearDerivedAmount
          /\ return("noToken")
          /\ UNCHANGED <<priceImpact, sorReturn, calls, costOutputToken>>
     ELSE IF wrapType # "NonWrap"
     THEN LET decimals == IF exactIn
                          THEN getTokenDecimals(tokenInAddressInput)
                          ELSE getTokenDecimals(tokenOutAddressInput)
              parsed   == ParseFixed(amount, decimals)
          IN /\ IF exactIn
                THEN tokenInAmountInput' = amount /\ UNCHANGED tokenOutAmountInput
                ELSE tokenOutAmountInput' = amount /\ UNCHANGED tokenInAmountInput
             /\ IF parsed = Throws
                THEN /\ hac' = [hac EXCEPT ![c] =
                                  [started EXCEPT !.pc = "failed", !.path = "wrap"]]
                     /\ UNCHANGED calls
                ELSE /\ hac' = [hac EXCEPT ![c] =
                                  [started EXCEPT !.pc = "awaitWrap",
                                                  !.path = "wrap",
                                                  !.scaled = parsed]]
                     /\ calls' = [calls EXCEPT !.getWrapOutput = @ + 1]
             /\ UNCHANGED <<priceImpact, sorReturn, costOutputToken>>
     ELSE IF ~poolData
     THEN /\ ClearDerivedAmount
          /\ return("noPools")
          /\ UNCHANGED <<priceImpact, sorReturn, calls, costOutputToken>>
     ELSE \* setSwapCost: setCostOutputToken is invoked for the variable side
          /\ costOutputToken' =
               IF exactIn THEN tokenOutAddressInput ELSE tokenInAddressInput
          /\ calls' = [calls EXCEPT !.setCostOutputToken = @ + 1]
          /\ hac' = [hac EXCEPT ![c] =
                       [started EXCEPT !.pc = "awaitCost", !.path = "routed"]]
          /\ UNCHANGED <<amounts, priceImpact, sorReturn>>

\* handleAmountChange() called by the component
HandleAmountChange(c) ==
  /\ HandleAmountChangeStart(c, sorManager /\ hasPoolData)
  /\ UNCHANGED <<context, props, sorManager, hasPoolData, snapshot, exec, poolsLoading,
                 uta, trd, fetching, edits>>

\* the wrap path without line 318 (priceImpact is kept)
WrapFinishKeepingImpact ==
  /\ sorReturn' = [sorReturn EXCEPT !.hasSwaps = FALSE]
  /\ UNCHANGED priceImpact

\* lines 317-318 of the wrap path
WrapFinish ==
  /\ sorReturn' = [sorReturn EXCEPT !.hasSwaps = FALSE]
  /\ priceImpact' = 0

\* the wrap type quoted whichever side is edited
SameWrapType(inputEdited, type) == type

\* the wrap type passed to getWrapOutput: wrapType.value when the input side
\* is edited (line 302), its opposite when the output side is (line 311)
QuotedWrapType(inputEdited, type) ==
  IF inputEdited THEN type
  ELSE IF type = "Wrap" THEN "Unwrap" ELSE "Wrap"

\* getWrapOutput resolves: lines 305 / 314, then 317-319
WrapResolve(c) ==
  LET k        == hac[c]
      wrapper  == IF k.wrapType = "Wrap" THEN k.tokenOut ELSE k.tokenIn
      type     == QuotedWrapType(k.exactIn, k.wrapType)
      decimals == IF k.exactIn THEN getTokenDecimals(k.tokenIn)
                  ELSE getTokenDecimals(k.tokenOut)
      output   == getWrapOutput(wrapper, type, k.scaled)
  IN
  /\ k.pc = "awaitWrap"
  /\ IF k.exactIn
     THEN tokenOutAmountInput' = FormatFixed(output, decimals)
          /\ UNCHANGED tokenInAmountInput
     ELSE tokenInAmountInput' = FormatFixed(output, decimals)
          /\ UNCHANGED tokenOutAmountInput
  /\ WrapFinish
  /\ hac' = [hac EXCEPT ![c].pc = "done"]
  /\ UNCHANGED <<context, props, manager, pools, validationErrors, exec, poolsLoading,
                 uta, trd, fetching, calls, nextId, edits>>

\* setCostOutputToken resolves: parseUnits of the amount, then getBestSwap
CostResolve(c) ==
  LET k        == hac[c]
      decimals == IF k.exactIn THEN getTokenDecimals(k.tokenIn)
                  ELSE getTokenDecimals(k.tokenOut)
      scaled   == ParseFixed(k.amount, decimals)
  IN
  /\ k.pc = "awaitCost"
  /\ IF scaled = Throws
     THEN hac' = [hac EXCEPT ![c].pc = "failed"] /\ UNCHANGED calls
     ELSE /\ hac' = [hac EXCEPT ![c].pc = "awaitSwap", ![c].scaled = scaled,
                                ![c].snapshot = snapshot]
          /\ calls' = [calls EXCEPT !.getBestSwap = @ + 1]
  /\ UNCHANGED <<context, props, amounts, manager, quote, exec, poolsLoading,
                 uta, trd, fetching, nextId, edits>>

\* lines 418-421
QuoteFinish(selected, impact) ==
  /\ pools' = selected
  /\ validationErrors' = [validationErrors EXCEPT
                            !.highPriceImpact = IsHighPriceImpact(impact)]

\* sorReturn.value = swapReturn and the derived displayed amount
\* (lines 348-353 / 392-397)
ApplySwapReturn(c, swapReturn) ==
  LET k == hac[c]
  IN /\ sorReturn' = swapReturn
     /\ IF k.exactIn
        THEN tokenOutAmountInput' =
               DisplayAmount(swapReturn.returnAmount, getTokenDecimals(k.tokenOut))
             /\ UNCHANGED tokenInAmountInput
        ELSE tokenInAmountInput' =
               DisplayAmount(swapReturn.returnAmount, getTokenDecimals(k.tokenIn))
             /\ UNCHANGED tokenOutAmountInput

\* a route computed on the snapshot that is current when the query ends
LatestSnapshot(bound, current) == current

\* The Pool Data Cache of the SorManager: the snapshot whose pools and
\* balances the route of a query references is the one the query was bound
\* to when it started, whatever the cache holds when it ends.
RouteSnapshot(bound, current) == bound

\* getBestSwap resolves with a fresh SorReturn object
SwapResolve(c, answer) ==
  LET k          == hac[c]
      swapReturn ==
        [hasSwaps |-> answer.hasSwaps, returnAmount |-> answer.returnAmount,
         marketSpNormalised |-> answer.marketSpNormalised,
         result |-> [id |-> nextId,
                     tokenAddresses |->
                       IF answer.hasSwaps
                       THEN <<AssetAddress(k.tokenIn), AssetAddress(k.tokenOut)>>
                       ELSE <<>>,
                     swaps |-> IF answer.hasSwaps THEN <<"swap">> ELSE <<>>]]
      Answered ==
        [k EXCEPT !.resultId = nextId,
                  !.returnAmount = answer.returnAmount,
                  !.marketSp = answer.marketSpNormalised,
                  !.routeSnapshot = RouteSnapshot(k.snapshot, snapshot)]
  IN
  /\ k.pc = "awaitSwap"
  /\ nextId' = nextId + 1
  /\ selectedPools' = nextId
  /\ ApplySwapReturn(c, swapReturn)
  /\ IF ~swapReturn.hasSwaps
     THEN /\ priceImpact' = 0
          /\ QuoteFinish(nextId, 0)
          /\ hac' = [hac EXCEPT ![c] = [Answered EXCEPT !.pc = "done"]]
     ELSE /\ hac' = [hac EXCEPT ![c] = [Answered EXCEPT !.pc = "awaitAdjust"]]
          /\ UNCHANGED <<priceImpact, pools, validationErrors>>
  /\ UNCHANGED <<context, props, sorManager, hasPoolData, snapshot, costOutputToken,
                 exec, poolsLoading, uta, trd, fetching, calls, edits>>

\* adjustedPiAmount resolves: calcPriceImpact, the floor, lines 418-421
AdjustResolve(c) ==
  LET k               == hac[c]
      tokenDecimals   == IF k.exactIn THEN getTokenDecimals(k.tokenOut)
                         ELSE getTokenDecimals(k.tokenIn)
      tokenAmount     == adjustedPiAmount(k.returnAmount, k.tokenOut)
      priceImpactCalc == calcPriceImpact(tokenDecimals, tokenAmount, k.scaled,
                                         k.marketSp)
  IN
  /\ k.pc = "awaitAdjust"
  /\ IF priceImpactCalc = CalcThrows
     THEN /\ hac' = [hac EXCEPT ![c].pc = "failed"]
          /\ UNCHANGED <<priceImpact, pools, validationErrors>>
     ELSE /\ priceImpact' = FlooredPriceImpact(priceImpactCalc)
          /\ QuoteFinish(selectedPools, FlooredPriceImpact(priceImpactCalc))
          /\ hac' = [hac EXCEPT ![c].pc = "done", ![c].piAmount = tokenAmount,
                                ![c].calc = priceImpactCalc]
  /\ UNCHANGED <<context, props, amounts, manager, sorReturn, exec, poolsLoading,
                 uta, trd, fetching, calls, nextId, edits>>

\* the awaited call (getWrapOutput, setCostOutputToken, getBestSwap,
\* convertStEthWrap) rejects: the exception leaves handleAmountChange
AwaitRejects(c) ==
  /\ hac[c].pc \in {"awaitWrap", "awaitCost", "awaitSwap", "awaitAdjust"}
  /\ hac' = [hac EXCEPT ![c].pc = "failed"]
  /\ UNCHANGED <<context, props, amounts, manager, quote, exec, poolsLoading,
                 uta, trd, fetching, calls, nextId, edits>>

\* ------------------------------------------------------ updateTradeAmounts
\* updateTradeAmounts() up to its await of queryBatchSwap
UpdateTradeAmounts(u) ==
  /\ uta[u].pc = "idle"
  /\ \A b \in UpdateIds : b < u => uta[b].pc # "idle"
  /\ IF sorManager /\ sorReturn.hasSwaps /\ ~confirming
     THEN /\ uta' = [uta EXCEPT ![u] = [pc |-> "awaitQuery",
                                        result |-> sorReturn.result.id,
                                        exactIn |-> exactIn, seen |-> 0,
                                        wrote |-> FALSE]]
          /\ calls' = [calls EXCEPT !.queryBatchSwap = @ + 1]
     ELSE /\ uta' = [uta EXCEPT ![u].pc = "done"]
          /\ UNCHANGED calls
  /\ UNCHANGED <<context, props, amounts, manager, quote, exec, poolsLoading,
                 hac, trd, fetching, nextId, edits>>

\* queryBatchSwap resolves with deltas: lines 209-258
UpdateResolve(u, deltas) ==
  LET k                == uta[u]
      tokenAddresses   == sorReturn.result.tokenAddresses
      tokenInPosition  == IndexOf(tokenAddresses, AssetAddress(tokenInAddressInput))
      tokenOutPosition == IndexOf(tokenAddresses, AssetAddress(tokenOutAddressInput))
  IN
  /\ k.pc = "awaitQuery"
  /\ IF IsStaleResult(k.result) \/ Len(deltas) < 2
     THEN /\ uta' = [uta EXCEPT ![u].pc = "done", ![u].seen = sorReturn.result.id]
          /\ UNCHANGED amounts
     ELSE IF tokenInPosition = 0 \/ tokenOutPosition = 0
     THEN \* BigNumber.from(undefined) throws
          /\ uta' = [uta EXCEPT ![u].pc = "failed",
                                ![u].seen = sorReturn.result.id]
          /\ UNCHANGED amounts
     ELSE /\ uta' = [uta EXCEPT ![u].pc = "done", ![u].wrote = TRUE,
                                ![u].seen = sorReturn.result.id]
          /\ IF k.exactIn
             THEN tokenOutAmountInput' =
                    DisplayAmount(deltas[tokenOutPosition],
                                  getTokenDecimals(tokenOutAddressInput))
                  /\ UNCHANGED tokenInAmountInput
             ELSE tokenInAmountInput' =
                    DisplayAmount(deltas[tokenInPosition],
                                  getTokenDecimals(tokenInAddressInput))
                  /\ UNCHANGED tokenOutAmountInput
  /\ UNCHANGED <<context, props, manager, quote, exec, poolsLoading,
                 hac, trd, fetching, calls, nextId, edits>>

\* queryBatchSwap rejects
UpdateRejects(u) ==
  /\ uta[u].pc = "awaitQuery"
  /\ uta' = [uta EXCEPT ![u].pc = "failed"]
  /\ UNCHANGED <<context, props, amounts, manager, quote, exec, poolsLoading,
                 hac, trd, fetching, calls, nextId, edits>>

\* ------------------------------------------------------- initSor, fetchPools
\* initSor(): the SorManager is constructed and fetchPools() started
InitSor ==
  /\ ~sorManager
  /\ sorManager' = TRUE
  /\ fetching' = fetching + 1
  /\ UNCHANGED <<context, props, amounts, hasPoolData, snapshot, costOutputToken,
                 selectedPools, quote, exec, poolsLoading, hac, uta, trd, calls,
                 nextId, edits>>

\* fetchPools() called by the component, up to its await (lines 172-178)
FetchPools ==
  /\ sorManager
  /\ snapshot + fetching < MaxFetches
  /\ fetching' = fetching + 1
  /\ UNCHANGED <<context, props, amounts, sorManager, hasPoolData, snapshot,
                 costOutputToken, selectedPools, quote, exec, poolsLoading,
                 hac, uta, trd, calls, nextId, edits>>

\* fetchPools() called while sorManager is undefined: it returns at line 174
FetchPoolsWithoutManager ==
  /\ ~sorManager
  /\ calls.fetchPoolsWithoutManager < MaxFetches
  /\ calls' = [calls EXCEPT !.fetchPoolsWithoutManager = @ + 1]
  /\ UNCHANGED <<context, props, amounts, manager, quote, exec, poolsLoading,
                 hac, uta, trd, fetching, nextId, edits>>

\* sorManager.fetchPools() rejects: the exception leaves fetchPools at line 178
FetchPoolsRejects ==
  /\ fetching > 0
  /\ fetching' = fetching - 1
  /\ UNCHANGED <<context, props, amounts, manager, quote, exec, poolsLoading,
                 hac, uta, trd, calls, nextId, edits>>

\* fetchPools resolving and calling handleAmountChange whatever sorConfig says
FetchPoolsResolveAlwaysQuoting ==
  /\ fetching > 0
  /\ fetching' = fetching - 1
  /\ hasPoolData' = TRUE
  /\ snapshot' = snapshot + 1
  /\ poolsLoading' = FALSE
  /\ \E c \in CallIds : HandleAmountChangeStart(c, TRUE)
  /\ UNCHANGED <<context, props, sorManager, exec, uta, trd, edits>>

\* fetchPools resolving without line 181 (poolsLoading is left as it is)
FetchPoolsResolveStillLoading ==
  /\ fetching > 0
  /\ fetching' = fetching - 1
  /\ hasPoolData' = TRUE
  /\ snapshot' = snapshot + 1
  /\ IF handleAmountsOnFetchPools
     THEN \E c \in CallIds : HandleAmountChangeStart(c, TRUE)
     ELSE UNCHANGED <<amounts, quote, costOutputToken, selectedPools, hac,
                      calls, nextId>>
  /\ UNCHANGED <<context, props, sorManager, exec, uta, trd, edits,
                 poolsLoading>>

\* sorManager.fetchPools() resolves: lines 179-184, with the handleAmountChange
\* call it makes run to its first await. The cache replaces its snapshot by
\* the next one.
FetchPoolsResolve ==
  /\ fetching > 0
  /\ fetching' = fetching - 1
  /\ hasPoolData' = TRUE
  /\ snapshot' = snapshot + 1
  /\ poolsLoading' = FALSE
  /\ IF handleAmountsOnFetchPools
     THEN \E c \in CallIds : HandleAmountChangeStart(c, TRUE)
     ELSE UNCHANGED <<amounts, quote, costOutputToken, selectedPools, hac,
                      calls, nextId>>
  /\ UNCHANGED <<context, props, sorManager, exec, uta, trd, edits>>

\* ------------------------------------------- fixed-point conversion alone
\* parseFixed(amount, decimals) as lines 303 and 312 call it
ToFixedPoint ==
  /\ conversion.pc = "input"
  /\ conversion' =
       LET fixed == ParseFixed(conversion.amount, conversion.decimals)
       IN [conversion EXCEPT !.fixed = fixed,
                             !.pc = IF fixed = Throws THEN "threw" ELSE "parsed"]
  /\ UNCHANGED <<isMainnet, exitHandler, mount, otherInstance, props, amounts, manager,
                 quote, exec, poolsLoading, hac, uta, trd, fetching, calls,
                 nextId, edits>>

\* formatFixed(fixed, decimals) as lines 305 and 314 call it
FromFixedPoint ==
  /\ conversion.pc = "parsed"
  /\ conversion' =
       [conversion EXCEPT !.pc = "formatted",
                          !.text = FormatFixed(conversion.fixed,
                                               conversion.decimals)]
  /\ UNCHANGED <<isMainnet, exitHandler, mount, otherInstance, props, amounts, manager,
                 quote, exec, poolsLoading, hac, uta, trd, fetching, calls,
                 nextId, edits>>

\* ---------------------------------------------------------------- onMounted
\* The token selections a page can mount with: those of Pairs and pairs with
\* one or two tokens that are on no token list.
MountPairs ==
  Pairs \cup
  { [tokenIn |-> "NEW1", tokenOut |-> "USDC", wrapType |-> "NonWrap"],
    [tokenIn |-> "DAI",  tokenOut |-> "NEW2", wrapType |-> "NonWrap"],
    [tokenIn |-> "NEW1", tokenOut |-> "NEW2", wrapType |-> "NonWrap"],
    [tokenIn |-> "",     tokenOut |-> "NEW2", wrapType |-> "NonWrap"] }

\* lines 142-148 pushing every chosen address, known or not
AllAssets ==
  (IF tokenInAddressInput # "" THEN <<tokenInAddressInput>> ELSE <<>>)
  \o (IF tokenOutAddressInput # "" THEN <<tokenOutAddressInput>> ELSE <<>>)

\* unknownAssets as lines 142-148 fill it
UnknownAssets ==
  (IF tokenInAddressInput # "" /\ ~getToken(tokenInAddressInput)
   THEN <<tokenInAddressInput>> ELSE <<>>)
  \o (IF tokenOutAddressInput # "" /\ ~getToken(tokenOutAddressInput)
      THEN <<tokenOutAddressInput>> ELSE <<>>)

\* the mount callback up to its first await: injectTokens(unknownAssets)
OnMounted ==
  /\ mount.pc = "unmounted"
  /\ mount' = [mount EXCEPT !.pc = "awaitInject",
                            !.unknownAssets = UnknownAssets]
  /\ UNCHANGED <<isMainnet, exitHandler, conversion, otherInstance, props, amounts, manager,
                 quote, exec, poolsLoading, hac, uta, trd, fetching, calls,
                 nextId, edits>>

\* injectTokens resolves: line 150 calls initSor(), which constructs the
\* SorManager and starts fetchPools(); the callback awaits its promise
MountInitSor ==
  /\ mount.pc = "awaitInject"
  /\ mount' = [mount EXCEPT !.pc = "awaitInitSor"]
  /\ sorManager' = TRUE
  /\ fetching' = fetching + 1
  /\ UNCHANGED <<isMainnet, exitHandler, conversion, otherInstance, props, amounts,
                 hasPoolData, snapshot, costOutputToken, selectedPools, quote,
                 exec, poolsLoading, hac, uta, trd, calls, nextId, edits>>

\* injectTokens rejects: the callback ends at line 149
MountInjectRejects ==
  /\ mount.pc = "awaitInject"
  /\ mount' = [mount EXCEPT !.pc = "injectFailed"]
  /\ UNCHANGED <<isMainnet, exitHandler, conversion, otherInstance, props, amounts, manager,
                 quote, exec, poolsLoading, hac, uta, trd, fetching, calls,
                 nextId, edits>>

\* the promise of initSor() resolves: line 151 calls handleAmountChange()
MountHandleAmountChange(c) ==
  /\ mount.pc = "awaitInitSor"
  /\ mount' = [mount EXCEPT !.pc = "awaitAmounts", !.call = c]
  /\ HandleAmountChangeStart(c, sorManager /\ hasPoolData)
  /\ UNCHANGED <<isMainnet, exitHandler, conversion, otherInstance, props, sorManager,
                 hasPoolData, snapshot, exec, poolsLoading, uta, trd, fetching,
                 edits>>

\* the promise of that handleAmountChange() settles: the callback ends
MountEnd ==
  /\ mount.pc = "awaitAmounts"
  /\ hac[mount.call].pc \in {"done", "failed"}
  /\ mount' = [mount EXCEPT !.pc = IF hac[mount.call].pc = "done"
                                   THEN "mounted" ELSE "failed"]
  /\ UNCHANGED <<isMainnet, exitHandler, conversion, otherInstance, props, amounts, manager,
                 quote, exec, poolsLoading, hac, uta, trd, fetching, calls,
                 nextId, edits>>

\* ------------------------------------------------------------------- user
\* the user types into the input (side = TRUE) or the output field
UserEditAmount(side, amount) ==
  /\ edits < MaxEdits
  /\ edits' = edits + 1
  /\ exactIn' = side
  /\ IF side
     THEN tokenInAmountInput' = amount /\ UNCHANGED tokenOutAmountInput
     ELSE tokenOutAmountInput' = amount /\ UNCHANGED tokenInAmountInput
  /\ UNCHANGED <<context, tokenInAddressInput, tokenOutAddressInput, wrapType,
                 slippageBufferRate, handleAmountsOnFetchPools, manager, quote,
                 exec, poolsLoading, hac, uta, trd, fetching, calls, nextId>>

\* the user selects a token pair
UserSelectPair(p) ==
  /\ edits < MaxEdits
  /\ edits' = edits + 1
  /\ <<tokenInAddressInput, tokenOutAddressInput, wrapType>> #
       <<p.tokenIn, p.tokenOut, p.wrapType>>
  /\ tokenInAddressInput' = p.tokenIn
  /\ tokenOutAddressInput' = p.tokenOut
  /\ wrapType' = p.wrapType
  /\ UNCHANGED <<context, exactIn, slippageBufferRate, handleAmountsOnFetchPools,
                 amounts, manager, quote, exec, poolsLoading, hac, uta, trd,
                 fetching, calls, nextId>>

\* resetState()
ResetState ==
  /\ validationErrors' = [validationErrors EXCEPT !.highPriceImpact = FALSE]
  /\ submissionError' = "null"
  /\ UNCHANGED <<context, props, amounts, manager, pools, sorReturn, priceImpact,
                 trading, confirming, latestTxHash, transactions, poolsLoading,
                 hac, uta, trd, fetching, calls, nextId, edits>>

\* ------------------------------------------------- another useSor instance
\* `state` (lines 61-66) is created once, when the module is loaded, and
\* every useSor() call returns toRefs of that one object: what a second
\* instance writes to state is written to validationErrors and
\* submissionError of this one.
OtherUnchanged ==
  UNCHANGED <<isMainnet, exitHandler, mount, conversion, props, amounts, manager, pools,
              sorReturn, priceImpact, trading, confirming, latestTxHash,
              transactions, poolsLoading, hac, uta, trd, fetching, calls,
              nextId, edits>>

\* the other instance calls resetState()
OtherResetState ==
  /\ otherInstance.ops < MaxOtherOps
  /\ otherInstance' = [ops |-> otherInstance.ops + 1, last |-> "resetState"]
  /\ validationErrors' = [validationErrors EXCEPT !.highPriceImpact = FALSE]
  /\ submissionError' = "null"
  /\ OtherUnchanged

\* a trade() of the other instance is rejected by its executor: its catch
\* block writes state.submissionError
OtherTradeFails(message) ==
  /\ otherInstance.ops < MaxOtherOps
  /\ otherInstance' = [ops |-> otherInstance.ops + 1, last |-> "trade"]
  /\ submissionError' = message
  /\ UNCHANGED validationErrors
  /\ OtherUnchanged

\* a routed handleAmountChange of the other instance reaches lines 420-421
\* with its own price impact
OtherHandleAmountChange(impact) ==
  /\ otherInstance.ops < MaxOtherOps
  /\ otherInstance' = [ops |-> otherInstance.ops + 1,
                       last |-> "handleAmountChange"]
  /\ validationErrors' =
       [validationErrors EXCEPT !.highPriceImpact = IsHighPriceImpact(impact)]
  /\ UNCHANGED submissionError
  /\ OtherUnchanged

\* ------------------------------------------------------------------ trade
\* the message of the error an executor rejects with
ErrorMessages == {"user rejected"}

\* the trades whose executor or whose confirmation is awaited
InFlight == {t \in TradeIds : trd[t].pc \in {"awaitExec", "submitted"}}

\* trade() from its entry to the await of its executor (alone: no other trade
\* was in flight when it was called). getToken of an unset
\* address and parseFixed of an unparsable amount throw before any try block.
Trade(t) ==
  LET tokenInAddress      == tokenInAddressInput
      tokenOutAddress     == tokenOutAddressInput
      unknownToken        == tokenInAddress = "" \/ tokenOutAddress = ""
      tokenInAmountScaled ==
        ParseFixed(tokenInAmountInput, getTokenDecimals(tokenInAddress))
      tokenOutAmount      ==
        ParseFixed(tokenOutAmountInput, getTokenDecimals(tokenOutAddress))
      threw == trd' = [trd EXCEPT ![t].pc = "threw", ![t].alone = InFlight = {}]
      submit(fn, wrapper, amountOut, limit) ==
        trd' = [trd EXCEPT ![t] =
                 [pc |-> "awaitExec", fn |-> fn, wrapper |-> wrapper,
                  amountIn |-> tokenInAmountScaled, amountOut |-> amountOut,
                  limit |-> limit, hash |-> 0, error |-> "null",
                  executorCalls |-> trd[t].executorCalls + 1,
                  alone |-> InFlight = {}]]
  IN
  /\ trd[t].pc = "idle"
  /\ \A b \in TradeIds : b < t => trd[b].pc # "idle"
  /\ trading' = TRUE
  /\ confirming' = TRUE
  /\ submissionError' = "null"
  /\ IF unknownToken THEN threw
     ELSE IF tokenInAmountScaled = Throws THEN threw
     ELSE IF wrapType = "Wrap" THEN submit("wrap", tokenOutAddress, 0, 0)
     ELSE IF wrapType = "Unwrap" THEN submit("unwrap", tokenInAddress, 0, 0)
     ELSE IF tokenOutAmount = Throws THEN threw
     ELSE IF exactIn
     THEN submit("swapIn", "", tokenOutAmount, getMinOut(tokenOutAmount))
     ELSE submit("swapOut", "", tokenOutAmount, getMaxIn(tokenInAmountScaled))
  /\ UNCHANGED <<context, props, amounts, manager, quote, latestTxHash, transactions,
                 poolsLoading, hac, uta, fetching, calls, nextId, edits>>

\* a trade() call whose executor has answered: its arguments are gone
Settled(k) == [k EXCEPT !.amountIn = 0, !.amountOut = 0, !.limit = 0]

\* The props tokenInAmountScaled / tokenOutAmountScaled: the component's
\* computed fixed-point value of the displayed amount, read when .value is
\* evaluated ('' counts as 0).
AmountScaled(amount, address) ==
  IF amount = <<>> \/ address = "" THEN Zero
  ELSE ParseFixed(amount, getTokenDecimals(address))
tokenInAmountScaled == AmountScaled(tokenInAmountInput, tokenInAddressInput)
tokenOutAmountScaled == AmountScaled(tokenOutAmountInput, tokenOutAddressInput)

\* getQuote()
getQuote ==
  [maximumInAmount  |-> getMaxIn(tokenInAmountScaled),
   minimumOutAmount |-> getMinOut(tokenOutAmountScaled)]

\* txHandler without its first line (confirming stays true)
TxHandlerStillConfirming(t, action) ==
  /\ UNCHANGED confirming
  /\ transactions' = Append(transactions,
                            [id |-> t, action |-> action, quote |-> getQuote])

\* txHandler(tx, action) up to the registration of the listener
TxHandler(t, action) ==
  /\ confirming' = FALSE
  /\ transactions' = Append(transactions,
                            [id |-> t, action |-> action, quote |-> getQuote])

\* the executor resolves with a transaction whose hash is t
TradeResolve(t) ==
  /\ trd[t].pc = "awaitExec"
  /\ TxHandler(t, IF trd[t].fn \in {"wrap", "unwrap"} THEN trd[t].fn ELSE "trade")
  /\ trd' = [trd EXCEPT ![t] = [Settled(trd[t]) EXCEPT !.pc = "submitted",
                                                       !.hash = t]]
  /\ UNCHANGED <<context, props, amounts, manager, quote, trading, latestTxHash,
                 submissionError, poolsLoading, hac, uta, fetching, calls,
                 nextId, edits>>

\* the catch block without trading.value = false
SubmissionFailedStillTrading(message) ==
  /\ submissionError' = message
  /\ UNCHANGED trading
  /\ confirming' = FALSE

\* the catch block of trade()
SubmissionFailed(message) ==
  /\ submissionError' = message
  /\ trading' = FALSE
  /\ confirming' = FALSE

\* the executor rejects
TradeRejects(t, message) ==
  /\ trd[t].pc = "awaitExec"
  /\ SubmissionFailed(message)
  /\ trd' = [trd EXCEPT ![t] = [Settled(trd[t]) EXCEPT !.pc = "failed",
                                                       !.error = message]]
  /\ UNCHANGED <<context, props, amounts, manager, quote, latestTxHash, transactions,
                 poolsLoading, hac, uta, fetching, calls, nextId, edits>>

\* onTxConfirmed of the listener
TxConfirmed(t) ==
  /\ trd[t].pc = "submitted"
  /\ trading' = FALSE
  /\ latestTxHash' = trd[t].hash
  /\ trd' = [trd EXCEPT ![t].pc = "confirmed"]
  /\ UNCHANGED <<context, props, amounts, manager, quote, confirming, submissionError,
                 transactions, poolsLoading, hac, uta, fetching, calls, nextId,
                 edits>>

\* onTxFailed recording the hash of the failed transaction
TxFailedRecordingHash(t) ==
  /\ trd[t].pc = "submitted"
  /\ trading' = FALSE
  /\ latestTxHash' = trd[t].hash
  /\ trd' = [trd EXCEPT ![t].pc = "reverted"]
  /\ UNCHANGED <<context, props, amounts, manager, quote, confirming,
                 submissionError, transactions, poolsLoading, hac, uta,
                 fetching, calls, nextId, edits>>

\* onTxFailed of the listener
TxFailed(t) ==
  /\ trd[t].pc = "submitted"
  /\ trading' = FALSE
  /\ trd' = [trd EXCEPT ![t].pc = "reverted"]
  /\ UNCHANGED <<context, props, amounts, manager, quote, confirming, latestTxHash,
                 submissionError, transactions, poolsLoading, hac, uta,
                 fetching, calls, nextId, edits>>

\* ---------------------------------------------------------- specification
Next ==
  \/ \E c \in CallIds : HandleAmountChange(c)
  \/ \E c \in CallIds : WrapResolve(c)
  \/ \E c \in CallIds : CostResolve(c)
  \/ \E c \in CallIds, answer \in RouteAnswers : SwapResolve(c, answer)
  \/ \E c \in CallIds : AdjustResolve(c)
  \/ \E c \in CallIds : AwaitRejects(c)
  \/ \E u \in UpdateIds : UpdateTradeAmounts(u)
  \/ \E u \in UpdateIds, deltas \in DeltaAnswers : UpdateResolve(u, deltas)
  \/ \E u \in UpdateIds : UpdateRejects(u)
  \/ InitSor
  \/ FetchPoolsResolve
  \/ \E side \in BOOLEAN, amount \in AmountInputs : UserEditAmount(side, amount)
  \/ \E p \in Pairs : UserSelectPair(p)
  \/ ResetState
  \/ \E t \in TradeIds : Trade(t)
  \/ \E t \in TradeIds : TradeResolve(t)
  \/ \E t \in TradeIds, message \in ErrorMessages : TradeRejects(t, message)
  \/ \E t \in TradeIds : TxConfirmed(t)
  \/ \E t \in TradeIds : TxFailed(t)

Spec == Init /\ [][Next]_vars

\* The amounts the edited field can hold when the quote is asked for in
\* QuoteSpec; "0.0" and "00" parse to zero.
QuoteAmounts ==
  { <<>>, <<"0">>, <<"0", ".", "0">>, <<"0", "0">>, <<"0", ".", "5">>, <<"1">> }

\* The quote on its own: handleAmountChange for every amount of QuoteAmounts
\* and every pair, with fetchPools called again while quotes are in flight.
QuoteInit ==
  /\ InitState
  /\ Alone
  /\ exactIn = TRUE
  /\ tokenInAmountInput \in QuoteAmounts
  /\ tokenOutAmountInput = <<>>
  /\ \E p \in Pairs :
        /\ tokenInAddressInput = p.tokenIn
        /\ tokenOutAddressInput = p.tokenOut
        /\ wrapType = p.wrapType
  /\ slippageBufferRate = 100
  /\ handleAmountsOnFetchPools = TRUE

QuoteNext ==
  \/ InitSor
  \/ FetchPools
  \/ FetchPoolsResolve
  \/ \E c \in CallIds : HandleAmountChange(c)
  \/ \E c \in CallIds : WrapResolve(c)
  \/ \E c \in CallIds : CostResolve(c)
  \/ \E c \in CallIds, answer \in RouteAnswers : SwapResolve(c, answer)
  \/ \E c \in CallIds : AdjustResolve(c)
  \/ \E c \in CallIds : AwaitRejects(c)

QuoteSpec == QuoteInit /\ [][QuoteNext]_vars

\* The amounts and decimal counts a conversion is tried on (decimals 18 and
\* 6 in deployment; 0..MaxDecimals here).
RoundTripAmounts ==
  { <<>>, <<".">>, <<"0">>, <<"1">>, <<"1", "0">>, <<"0", "1">>,
    <<"1", ".", "0">>, <<"1", ".", "5">>, <<"1", ".", "5", "0">>,
    <<"0", ".", "0", "5">>, <<".", "5">>, <<"5", ".">>,
    <<"1", ".", "0", "5">>, <<"1", "2", ".", "3", "4">>,
    <<"0", ".", "1", "0">>, <<"1", "0", "0">>, <<"1", ".", "2", "3", "4">>,
    <<"0", ".", "0">>, <<"2", ".", "0", "0">>, <<"1", "x">> }

RoundTripInit ==
  /\ InitState
  /\ isMainnet = TRUE
  /\ exitHandler = NoExits
  /\ mount = Unmounted
  /\ otherInstance = OtherIdle
  /\ \E a \in RoundTripAmounts, d \in 0..MaxDecimals :
        conversion = [NoConversion EXCEPT !.pc = "input", !.amount = a,
                                          !.decimals = d]
  /\ exactIn = TRUE
  /\ tokenInAmountInput = <<>>
  /\ tokenOutAmountInput = <<>>
  /\ tokenInAddressInput = "ETH"
  /\ tokenOutAddressInput = "WETH"
  /\ wrapType = "Wrap"
  /\ slippageBufferRate = 100
  /\ handleAmountsOnFetchPools = TRUE

RoundTripNext ==
  \/ ToFixedPoint
  \/ FromFixedPoint

RoundTripSpec == RoundTripInit /\ [][RoundTripNext]_vars

\* Routes whose return amount has more than MaxSignificantDigits digits, and
\* one whose return amount has fewer.
DisplayRouteAnswers ==
  { [hasSwaps |-> TRUE, returnAmount |-> 1234567, marketSpNormalised |-> 20],
    [hasSwaps |-> TRUE, returnAmount |-> 47,      marketSpNormalised |-> 20] }

\* A routed quote followed by trade(): the user has entered "1" on either
\* side of DAI / USDC.
DisplayInit ==
  /\ InitState
  /\ Alone
  /\ exactIn \in BOOLEAN
  /\ tokenInAmountInput = (IF exactIn THEN <<"1">> ELSE <<>>)
  /\ tokenOutAmountInput = (IF exactIn THEN <<>> ELSE <<"1">>)
  /\ tokenInAddressInput = "DAI"
  /\ tokenOutAddressInput = "USDC"
  /\ wrapType = "NonWrap"
  /\ slippageBufferRate \in SlippageRates
  /\ handleAmountsOnFetchPools = TRUE

DisplayNext ==
  \/ InitSor
  \/ FetchPoolsResolve
  \/ \E c \in CallIds : CostResolve(c)
  \/ \E c \in CallIds, answer \in DisplayRouteAnswers : SwapResolve(c, answer)
  \/ \E c \in CallIds : AdjustResolve(c)
  \/ \E t \in TradeIds : Trade(t)
  \/ \E t \in TradeIds : TradeResolve(t)
  \/ \E t \in TradeIds, message \in ErrorMessages : TradeRejects(t, message)
  \/ \E t \in TradeIds : TxConfirmed(t)
  \/ \E t \in TradeIds : TxFailed(t)

DisplaySpec == DisplayInit /\ [][DisplayNext]_vars

\* The price impacts the other instance's quotes can have: the floor and 10%.
OtherImpacts == {MIN_PRICE_IMPACT, ONE \div 10}

\* Two useSor instances on one page: this one quoting and trading, the
\* other resetting, quoting and failing to trade.
InstancesNext ==
  \/ InitSor
  \/ FetchPoolsResolve
  \/ \E c \in CallIds : WrapResolve(c)
  \/ \E c \in CallIds : CostResolve(c)
  \/ \E c \in CallIds, answer \in RouteAnswers : SwapResolve(c, answer)
  \/ \E c \in CallIds : AdjustResolve(c)
  \/ \E t \in TradeIds : Trade(t)
  \/ \E t \in TradeIds, message \in ErrorMessages : TradeRejects(t, message)
  \/ OtherResetState
  \/ \E message \in ErrorMessages : OtherTradeFails(message)
  \/ \E impact \in OtherImpacts : OtherHandleAmountChange(impact)

InstancesSpec == Init /\ [][InstancesNext]_vars

\* Quotes between the user's edits: the user changes the amount or the pair
\* and handleAmountChange runs again, on any of its paths.
FrameNext ==
  \/ InitSor
  \/ FetchPoolsResolve
  \/ \E c \in CallIds : HandleAmountChange(c)
  \/ \E c \in CallIds : WrapResolve(c)
  \/ \E c \in CallIds : CostResolve(c)
  \/ \E c \in CallIds, answer \in RouteAnswers : SwapResolve(c, answer)
  \/ \E c \in CallIds : AdjustResolve(c)
  \/ \E c \in CallIds : AwaitRejects(c)
  \/ \E side \in BOOLEAN, amount \in AmountInputs : UserEditAmount(side, amount)
  \/ \E p \in Pairs : UserSelectPair(p)

FrameSpec == Init /\ [][FrameNext]_vars

\* The pool data on its own: initSor and fetchPools called by the component,
\* before and after the SorManager exists, each fetch resolving or rejecting,
\* with sorConfig.handleAmountsOnFetchPools on or off.
RefreshInit ==
  /\ InitState
  /\ Alone
  /\ exactIn = TRUE
  /\ tokenInAmountInput \in AmountInputs
  /\ tokenOutAmountInput = <<>>
  /\ \E p \in Pairs :
        /\ tokenInAddressInput = p.tokenIn
        /\ tokenOutAddressInput = p.tokenOut
        /\ wrapType = p.wrapType
  /\ slippageBufferRate = 100
  /\ handleAmountsOnFetchPools \in BOOLEAN

RefreshNext ==
  \/ InitSor
  \/ FetchPools
  \/ FetchPoolsWithoutManager
  \/ FetchPoolsResolve
  \/ FetchPoolsRejects
  \/ \E c \in CallIds : WrapResolve(c)
  \/ \E c \in CallIds : CostResolve(c)
  \/ \E c \in CallIds, answer \in RouteAnswers : SwapResolve(c, answer)
  \/ \E c \in CallIds : AdjustResolve(c)
  \/ \E c \in CallIds : AwaitRejects(c)

RefreshSpec == RefreshInit /\ [][RefreshNext]_vars

\* The pairs with a staked-ether leg: the wrap of stETH, its unwrap, and
\* routed trades into and out of wstETH.
StEthPairs ==
  { [tokenIn |-> "stETH",  tokenOut |-> "wstETH", wrapType |-> "Wrap"],
    [tokenIn |-> "wstETH", tokenOut |-> "stETH",  wrapType |-> "Unwrap"],
    [tokenIn |-> "WETH",   tokenOut |-> "wstETH", wrapType |-> "NonWrap"],
    [tokenIn |-> "wstETH", tokenOut |-> "WETH",   wrapType |-> "NonWrap"] }

DirectionAmounts == { <<"1">>, <<"0", ".", "5">> }

\* The quote in both directions: the user has entered an amount on either
\* side, for every pair of Pairs and StEthPairs, on mainnet or elsewhere.
DirectionInit ==
  /\ InitState
  /\ isMainnet \in BOOLEAN
  /\ exitHandler = NoExits
  /\ mount = Unmounted
  /\ conversion = NoConversion
  /\ otherInstance = OtherIdle
  /\ exactIn \in BOOLEAN
  /\ \E a \in DirectionAmounts :
        /\ tokenInAmountInput = (IF exactIn THEN a ELSE <<>>)
        /\ tokenOutAmountInput = (IF exactIn THEN <<>> ELSE a)
  /\ \E p \in Pairs \cup StEthPairs :
        /\ tokenInAddressInput = p.tokenIn
        /\ tokenOutAddressInput = p.tokenOut
        /\ wrapType = p.wrapType
  /\ slippageBufferRate = 100
  /\ handleAmountsOnFetchPools = TRUE

DirectionSpec == DirectionInit /\ [][QuoteNext]_vars

\* The instance from its construction through its mount callback, with the
\* promises that callback and its calls wait for.
MountInit ==
  /\ InitState
  /\ Alone
  /\ exactIn = TRUE
  /\ tokenInAmountInput \in AmountInputs
  /\ tokenOutAmountInput = <<>>
  /\ \E p \in MountPairs :
        /\ tokenInAddressInput = p.tokenIn
        /\ tokenOutAddressInput = p.tokenOut
        /\ wrapType = p.wrapType
  /\ slippageBufferRate = 100
  /\ handleAmountsOnFetchPools \in BOOLEAN

MountNext ==
  \/ OnMounted
  \/ MountInitSor
  \/ MountInjectRejects
  \/ \E c \in CallIds : MountHandleAmountChange(c)
  \/ MountEnd
  \/ FetchPoolsResolve
  \/ \E c \in CallIds : WrapResolve(c)
  \/ \E c \in CallIds : CostResolve(c)
  \/ \E c \in CallIds, answer \in RouteAnswers : SwapResolve(c, answer)
  \/ \E c \in CallIds : AdjustResolve(c)
  \/ \E c \in CallIds : AwaitRejects(c)

MountSpec == MountInit /\ [][MountNext]_vars

\* The displayed amounts a trade can be submitted with in SlippageSpec: with
\* 2 and 1 decimals they scale to 0, 50, 100, 1000, 9990, 10000 and to
\* 0, 5, 10, 100, 999, 1000.
SlippageAmounts ==
  { <<"0">>, <<"0", ".", "5">>, <<"1">>, <<"1", "0">>, <<"9", "9", ".", "9">>,
    <<"1", "0", "0">> }

\* trade() on its own, for every direction, token pair, slippage rate and
\* pair of displayed amounts the component can be constructed with
SlippageInit ==
  /\ InitState
  /\ Alone
  /\ exactIn \in BOOLEAN
  /\ tokenInAmountInput \in SlippageAmounts
  /\ tokenOutAmountInput \in SlippageAmounts
  /\ \E p \in Pairs :
        /\ tokenInAddressInput = p.tokenIn
        /\ tokenOutAddressInput = p.tokenOut
        /\ wrapType = p.wrapType
  /\ slippageBufferRate \in SlippageRates
  /\ handleAmountsOnFetchPools = TRUE

SlippageNext ==
  \/ \E t \in TradeIds : Trade(t)
  \/ \E t \in TradeIds : TradeResolve(t)
  \/ \E t \in TradeIds, message \in ErrorMessages : TradeRejects(t, message)
  \/ \E t \in TradeIds : TxConfirmed(t)
  \/ \E t \in TradeIds : TxFailed(t)

SlippageSpec == SlippageInit /\ [][SlippageNext]_vars

\* ------------------------------------------------------- overlapping trades
\* trade() is a plain async function the component may call again while the
\* executor or the confirmation of an earlier call is awaited: MaxOverlap
\* calls, for every direction and token pair.
OverlapInit ==
  /\ ConstructedState
  /\ trd = [t \in 1..MaxOverlap |-> IdleTrade]
  /\ Alone
  /\ exactIn \in BOOLEAN
  /\ tokenInAmountInput = <<"1">>
  /\ tokenOutAmountInput = <<"1">>
  /\ \E p \in Pairs :
        /\ tokenInAddressInput = p.tokenIn
        /\ tokenOutAddressInput = p.tokenOut
        /\ wrapType = p.wrapType
  /\ slippageBufferRate = 100
  /\ handleAmountsOnFetchPools = TRUE

OverlapSpec == OverlapInit /\ [][SlippageNext]_vars

\* the confirmation listener calls onTxConfirmed or onTxFailed of every
\* transaction it was handed
ListenerFairness ==
  \A t \in 1..MaxOverlap : WF_vars(TxConfirmed(t) \/ TxFailed(t))

OverlapLiveSpec == OverlapInit /\ [][SlippageNext]_vars /\ ListenerFairness

\* ------------------------------------------------------ ExactInExitHandler
\* The ExitParams a call is made with: the BPT amount, the exit token
\* (amountsOut[0].address) and the addresses of tokenInfo.
ExitParamSets ==
  { [bptIn |-> b, tokenOut |-> t, tokenInfo |-> {"DAI", "USDC"}] :
      b \in {1, 2}, t \in {"DAI", "NEW1"} }

\* sdkPool.buildExitExactBPTIn: the transaction of the Vault's exitPool call,
\* its data encoding the arguments it was given
buildExitExactBPTIn(params) ==
  [to |-> "Vault", data |-> <<params.bptIn, params.tokenOut>>]

\* what an exit / queryExit call leaves alone: all of useSor
ExitFrame ==
  UNCHANGED <<isMainnet, mount, conversion, otherInstance, props, amounts,
              manager, quote, exec, poolsLoading, hac, uta, trd, fetching,
              calls, nextId, edits>>

ExitOp(i) == exitHandler.op[i]

\* exit(params) or queryExit(params) is called: lines 29-30, 40-43, up to the
\* await of signer.getAddress()
ExitCall(i, kind, params) ==
  /\ ExitOp(i).pc = "idle"
  /\ \A j \in ExitIds : j < i => ExitOp(j).pc # "idle"
  /\ exitHandler' =
       [exitHandler EXCEPT !.op[i] =
          [IdleExit EXCEPT !.kind = kind, !.params = params,
                           !.pc = "awaitAddress"]]
  /\ ExitFrame

\* signer.getAddress() resolves: lines 43-45, up to the await of pools.find
ExitAddressResolve(i) ==
  /\ ExitOp(i).pc = "awaitAddress"
  /\ exitHandler' = [exitHandler EXCEPT !.op[i].pc = "awaitFind"]
  /\ ExitFrame

\* balancer.pools.find resolves with the pool or with undefined: lines 45-62,
\* up to the await of buildExitExactBPTIn
ExitFindResolve(i, found) ==
  LET params == ExitOp(i).params IN
  /\ ExitOp(i).pc = "awaitFind"
  /\ exitHandler' =
       IF ~found
       THEN [exitHandler EXCEPT !.op[i].pc = "threw", !.op[i].failure = "pool"]
       ELSE IF params.tokenOut \notin params.tokenInfo
       THEN [exitHandler EXCEPT !.op[i].pc = "threw", !.op[i].failure = "token"]
       ELSE [exitHandler EXCEPT !.op[i].pc = "awaitBuild"]
  /\ ExitFrame

\* buildExitExactBPTIn has returned (built = TRUE) or has returned undefined:
\* lines 62-75, up to the await of calcPriceImpact
ExitBuildResolve(i, built) ==
  LET res == IF built THEN buildExitExactBPTIn(ExitOp(i).params) ELSE NoExitRes
  IN
  /\ ExitOp(i).pc = "awaitBuild"
  /\ exitHandler' =
       IF res = NoExitRes
       THEN [exitHandler EXCEPT !.lastExitRes = res, !.op[i].pc = "threw",
                                !.op[i].failure = "build"]
       ELSE [exitHandler EXCEPT !.lastExitRes = res, !.op[i].pc = "awaitImpact",
                                !.op[i].built = res]
  /\ ExitFrame

\* calcPriceImpact resolves: lines 75-91, queryExit returns its QueryOutput;
\* an exit call is resumed after its await of line 30 in a later job
ExitImpactResolve(i) ==
  /\ ExitOp(i).pc = "awaitImpact"
  /\ exitHandler' =
       [exitHandler EXCEPT !.op[i].queried = TRUE,
                           !.op[i].pc = IF ExitOp(i).kind = "exit"
                                        THEN "awaitQuery" ELSE "returned"]
  /\ ExitFrame

\* an awaited promise of queryExit rejects (getAddress, pools.find,
\* buildExitExactBPTIn, calcPriceImpact): queryExit, and the exit that awaits
\* it, end with the error
ExitAwaitRejects(i) ==
  /\ ExitOp(i).pc \in {"awaitAddress", "awaitFind", "awaitBuild", "awaitImpact"}
  /\ exitHandler' =
       [exitHandler EXCEPT !.op[i].pc = "threw", !.op[i].failure = "rejected"]
  /\ ExitFrame

\* exit after its await of queryExit: lines 32-37
ExitSend(i) ==
  /\ ExitOp(i).pc = "awaitQuery"
  /\ exitHandler' =
       IF exitHandler.lastExitRes = NoExitRes
       THEN [exitHandler EXCEPT !.op[i].pc = "threw",
                                !.op[i].failure = "construct"]
       ELSE [exitHandler EXCEPT !.op[i].pc = "sent",
                                !.op[i].sent = exitHandler.lastExitRes]
  /\ ExitFrame

\* exit and queryExit called on one handler in any order, the later call
\* possibly before the earlier one has ended (the exit form re-queries on
\* every change of its amounts)
ExitInit ==
  /\ InitState
  /\ Alone
  /\ exactIn = TRUE
  /\ tokenInAmountInput = <<>>
  /\ tokenOutAmountInput = <<>>
  /\ tokenInAddressInput = "DAI"
  /\ tokenOutAddressInput = "USDC"
  /\ wrapType = "NonWrap"
  /\ slippageBufferRate = 100
  /\ handleAmountsOnFetchPools = TRUE

ExitNext ==
  \/ \E i \in ExitIds, kind \in {"exit", "queryExit"}, params \in ExitParamSets :
        ExitCall(i, kind, params)
  \/ \E i \in ExitIds : ExitAddressResolve(i)
  \/ \E i \in ExitIds, found \in BOOLEAN : ExitFindResolve(i, found)
  \/ \E i \in ExitIds, built \in BOOLEAN : ExitBuildResolve(i, built)
  \/ \E i \in ExitIds : ExitImpactResolve(i)
  \/ \E i \in ExitIds : ExitAwaitRejects(i)
  \/ \E i \in ExitIds : ExitSend(i)

ExitSpec == ExitInit /\ [][ExitNext]_vars

\* ------------------------------------------------------------------ claims
NoCallInProgress == \A c \in CallIds : hac[c].pc \in {"idle", "done", "failed"}

\* the call's own derived (non-edited) displayed amount
DerivedAmountOf(k) ==
  IF k.exactIn THEN tokenOutAmountInput ELSE tokenInAmountInput

\* C1: when an older routed call A resolves its getBestSwap after a newer call
\* B did, with another return amount, then once both have completed (B being
\* the newest call, with no user edit and no updateTradeAmounts since)
\* sorReturn is B's route and the derived displayed amount is the one of B's
\* route.
C1_StaleQuoteDiscarded ==
  \A a \in CallIds, b \in CallIds :
    ( /\ a < b
      /\ hac[a].pc = "done" /\ hac[a].path = "routed"
      /\ hac[b].pc = "done" /\ hac[b].path = "routed"
      /\ hac[a].resultId > hac[b].resultId
      /\ hac[a].returnAmount # hac[b].returnAmount
      /\ \A c \in CallIds : c > b => hac[c].pc = "idle"
      /\ edits = hac[b].edits
      /\ \A u \in UpdateIds : uta[u].pc = "idle" )
    => /\ sorReturn.result.id = hac[b].resultId
       /\ DerivedAmountOf(hac[b]) =
            DisplayAmount(hac[b].returnAmount,
                          getTokenDecimals(IF hac[b].exactIn THEN hac[b].tokenOut
                                           ELSE hac[b].tokenIn))

\* the edited-side amount handleAmountChange reads at its entry
EditedAmount == IF exactIn THEN tokenInAmountInput ELSE tokenOutAmountInput

\* C2: a handleAmountChange call entered with the edited amount "" or "0"
\* sets both displayed amounts to that string, clears hasSwaps, returnAmount
\* and priceImpact, invokes none of the external queries, and is over.
C2_ZeroAmountShortCircuit ==
  [][ \A c \in CallIds :
        ( /\ hac[c].pc = "idle" /\ hac'[c].pc # "idle"
          /\ EditedAmount \in { <<>>, <<"0">> } )
        => /\ tokenInAmountInput' = EditedAmount
           /\ tokenOutAmountInput' = EditedAmount
           /\ sorReturn'.hasSwaps = FALSE
           /\ sorReturn'.returnAmount = 0
           /\ priceImpact' = 0
           /\ calls' = calls
           /\ hac'[c].pc = "done" ]_vars

\* a zero-amount call is over after a route had been stored, both amounts "0"
C2_Witness ==
  \E c \in CallIds :
    /\ hac[c].pc = "done" /\ hac[c].amount = <<"0">>
    /\ sorReturn.result.id # 0 /\ sorReturn.returnAmount = 0
    /\ tokenInAmountInput = <<"0">> /\ tokenOutAmountInput = <<"0">>

\* a started call that took the wrap branch: non-zero amount, both tokens
\* set, wrapType Wrap or Unwrap when line 293 read it
IsWrapCall(k) ==
  /\ k.pc # "idle"
  /\ k.amount \notin { <<>>, <<"0">> }
  /\ k.tokenIn # "" /\ k.tokenOut # ""
  /\ k.wrapType \in {"Wrap", "Unwrap"}

\* C3: no step of a wrap/unwrap handleAmountChange call invokes getBestSwap
\* or setCostOutputToken, and the step that completes it leaves
\* priceImpact = 0 and sorReturn.hasSwaps = false.
C3_WrapBypass ==
  [][ \A c \in CallIds :
        (hac'[c] # hac[c] /\ IsWrapCall(hac'[c]))
        => /\ calls'.getBestSwap = calls.getBestSwap
           /\ calls'.setCostOutputToken = calls.setCostOutputToken
           /\ hac'[c].pc = "done" =>
                (priceImpact' = 0 /\ sorReturn'.hasSwaps = FALSE) ]_vars

\* a wrap call completed after a routed quote had stored a route
C3_Witness ==
  \E c \in CallIds :
    /\ IsWrapCall(hac[c]) /\ hac[c].pc = "done"
    /\ sorReturn.result.id # 0 /\ sorReturn.returnAmount > 0
    /\ priceImpact = 0 /\ ~sorReturn.hasSwaps

\* everything updateTradeAmounts could write besides its own position
OrchestratorState ==
  <<props, amounts, manager, quote, exec, poolsLoading, hac, trd, fetching>>

\* C4: an updateTradeAmounts call that finds, when queryBatchSwap resolves,
\* another route object in sorReturn than the one it captured writes neither
\* displayed amount and changes no other state.
C4_StaleBatchDiscarded ==
  [][ \A u \in UpdateIds :
        ( /\ uta[u].pc = "awaitQuery" /\ uta'[u].pc # "awaitQuery"
          /\ sorReturn.result.id # uta[u].result )
        => UNCHANGED OrchestratorState ]_vars

\* an updateTradeAmounts call ended having seen a replaced route
C4_Witness ==
  \E u \in UpdateIds :
    /\ uta[u].pc = "done" /\ uta[u].result # 0
    /\ uta[u].seen # 0 /\ uta[u].seen # uta[u].result
    /\ sorReturn.hasSwaps

\* C5: an updateTradeAmounts call that finds sorReturn.hasSwaps = false when
\* queryBatchSwap resolves (a zero-amount reset or a wrap quote completed
\* while it was waiting) leaves both displayed amounts as they are.
C5_SupersededBatchDiscarded ==
  [][ \A u \in UpdateIds :
        ( /\ uta[u].pc = "awaitQuery" /\ uta'[u].pc # "awaitQuery"
          /\ ~sorReturn.hasSwaps )
        => UNCHANGED amounts ]_vars

\* C6: in every reachable state sorReturn.hasSwaps = false implies
\* priceImpact = 0.
C6_NoRouteImpact == ~sorReturn.hasSwaps => priceImpact = 0

\* C7: after every step that completes a handleAmountChange call and leaves
\* no call in progress, validationErrors.highPriceImpact is true exactly when
\* priceImpact >= 0.05.
C7_HighImpactFlag ==
  [][ ( /\ \E c \in CallIds : hac[c].pc # "done" /\ hac'[c].pc = "done"
        /\ NoCallInProgress' )
      => (validationErrors'.highPriceImpact
            <=> priceImpact' >= HIGH_PRICE_IMPACT_THRESHOLD) ]_vars

\* a started call that took the routed branch
IsRoutedCall(k) ==
  /\ k.pc # "idle"
  /\ k.amount \notin { <<>>, <<"0">> }
  /\ k.tokenIn # "" /\ k.tokenOut # ""
  /\ k.wrapType = "NonWrap"
  /\ k.path = "routed"

\* C8: the step that completes a routed handleAmountChange call with
\* sorReturn.hasSwaps = true leaves priceImpact = max(computed impact,
\* 0.0001): a computed impact below 0.0001 is reported as 0.0001.
C8_ImpactFloor ==
  [][ \A c \in CallIds :
        ( /\ hac[c].pc # "done" /\ hac'[c].pc = "done"
          /\ IsRoutedCall(hac'[c])
          /\ sorReturn'.hasSwaps )
        => /\ priceImpact' = IF hac'[c].calc >= MIN_PRICE_IMPACT
                              THEN hac'[c].calc ELSE MIN_PRICE_IMPACT
           /\ hac'[c].calc < MIN_PRICE_IMPACT => priceImpact' = MIN_PRICE_IMPACT ]_vars

\* a routed call has completed with a negative computed impact, reported as
\* the floor
C8_Witness ==
  \E c \in CallIds :
    /\ hac[c].pc = "done" /\ IsRoutedCall(hac[c])
    /\ hac[c].calc < 0 /\ sorReturn.hasSwaps
    /\ sorReturn.result.id = hac[c].resultId
    /\ priceImpact = MIN_PRICE_IMPACT

\* (1 + slippageBufferRate) * 10^18, at the model's scale
ClaimedFactor == ((10000 + slippageBufferRate) * ONE) \div 10000

\* C9: the limit trade() hands to swapIn is floor(out * ONE / ((1 + r) * ONE))
\* of the displayed output amount and is at most that amount; the limit it
\* hands to swapOut is floor(in * ((1 + r) * ONE) / ONE) of the displayed input
\* amount and is at least that amount; 1000 at r = 0.01 gives 990 and 1010.
C9_SlippageBounds ==
  \A t \in TradeIds :
    trd[t].pc = "awaitExec" =>
      LET k == trd[t]
      IN /\ k.fn = "swapIn" =>
              /\ exactIn
              /\ k.amountOut = ParseFixed(tokenOutAmountInput,
                                          getTokenDecimals(tokenOutAddressInput))
              /\ k.limit = (k.amountOut * ONE) \div ClaimedFactor
              /\ k.limit <= k.amountOut
              /\ (k.amountOut = 1000 /\ slippageBufferRate = 100) => k.limit = 990
         /\ k.fn = "swapOut" =>
              /\ ~exactIn
              /\ k.amountIn = ParseFixed(tokenInAmountInput,
                                         getTokenDecimals(tokenInAddressInput))
              /\ k.limit = (k.amountIn * ClaimedFactor) \div ONE
              /\ k.limit >= k.amountIn
              /\ (k.amountIn = 1000 /\ slippageBufferRate = 100) => k.limit = 1010

\* swapIn is being awaited with minAmount 990 for an output of 1000 at 1%
C9_Witness ==
  \E t \in TradeIds :
    /\ trd[t].pc = "awaitExec" /\ trd[t].fn = "swapIn"
    /\ trd[t].amountOut = 1000 /\ slippageBufferRate = 100
    /\ trd[t].limit = 990 /\ getMaxIn(1000) = 1010

\* C10: the step in which the executor of a trade() call rejects leaves
\* submissionError = the error's message, trading = confirming = false, the
\* transaction records and latestTxHash as they were, and the executor
\* called once by that trade().
C10_SubmissionFailure ==
  [][ \A t \in TradeIds :
        (trd[t].pc = "awaitExec" /\ trd'[t].pc = "failed")
        => /\ trd'[t].error \in ErrorMessages
           /\ submissionError' = trd'[t].error
           /\ trading' = FALSE
           /\ confirming' = FALSE
           /\ transactions' = transactions
           /\ latestTxHash' = latestTxHash
           /\ trd'[t].executorCalls = 1 ]_vars

\* a trade() call has ended in its catch block
C10_Witness ==
  \E t \in TradeIds :
    /\ trd[t].pc = "failed" /\ trd[t].executorCalls = 1
    /\ submissionError = trd[t].error /\ submissionError # "null"
    /\ ~trading /\ ~confirming /\ transactions = <<>> /\ latestTxHash = 0

\* C11: latestTxHash changes only in the step in which onTxConfirmed of a
\* submitted transaction runs, and then to that transaction's hash; the start
\* of trade(), the return and the failure of the submission and onTxFailed
\* leave it as it is.
C11_HashOnlyOnConfirmation ==
  [][ /\ latestTxHash' # latestTxHash =>
           \E t \in TradeIds :
             /\ trd[t].pc = "submitted" /\ trd'[t].pc = "confirmed"
             /\ trd[t].hash # 0
             /\ latestTxHash' = trd[t].hash
      /\ (\E t \in TradeIds :
             /\ trd'[t].pc # trd[t].pc
             /\ trd'[t].pc \in {"awaitExec", "threw", "submitted", "failed",
                                "reverted"})
         => latestTxHash' = latestTxHash ]_vars

\* a transaction was confirmed and its hash recorded
C11_Witness ==
  \E t \in TradeIds :
    /\ trd[t].pc = "confirmed" /\ trd[t].hash # 0
    /\ latestTxHash = trd[t].hash /\ ~trading

\* C12: an updateTradeAmounts call whose queryBatchSwap resolves while
\* confirming is true writes neither displayed amount.
C12_NoUpdateWhileConfirming ==
  [][ \A u \in UpdateIds :
        ( /\ uta[u].pc = "awaitQuery" /\ uta'[u].pc # "awaitQuery"
          /\ confirming )
        => UNCHANGED amounts ]_vars

\* the reading of sorManager && sorManager.hasPoolData() at line 322 is the
\* value after the step (fetchPools sets it before calling), and the call
\* that starts in the step is a routed one without pool data
StartsWithoutPoolData(c) ==
  /\ hac[c].pc = "idle" /\ hac'[c].pc # "idle"
  /\ EditedAmount \notin { <<>>, <<"0">> }
  /\ tokenInAddressInput # "" /\ tokenOutAddressInput # ""
  /\ wrapType = "NonWrap"
  /\ ~(sorManager' /\ hasPoolData')

\* C13: a handleAmountChange call with a non-zero amount, both tokens set and
\* wrapType NonWrap that finds no pool data sets the derived amount to "",
\* leaves the edited amount and sorReturn as they are, invokes neither
\* setCostOutputToken nor getBestSwap, and is over.
C13_NoPoolData ==
  [][ \A c \in CallIds :
        StartsWithoutPoolData(c)
        => /\ hac'[c].pc = "done"
           /\ IF exactIn
              THEN /\ tokenOutAmountInput' = <<>>
                   /\ tokenInAmountInput' = tokenInAmountInput
              ELSE /\ tokenInAmountInput' = <<>>
                   /\ tokenOutAmountInput' = tokenOutAmountInput
           /\ sorReturn' = sorReturn
           /\ calls' = calls ]_vars

\* an exact-out call without pool data has cleared the input amount that was
\* displayed and kept the edited output amount
C13_Witness ==
  \E c \in CallIds :
    /\ hac[c].pc = "done" /\ hac[c].path = "noPools" /\ ~hac[c].exactIn
    /\ hac[c].amount = <<"1">> /\ edits = hac[c].edits
    /\ tokenInAmountInput = <<>> /\ tokenOutAmountInput = <<"1">>
    /\ calls.getBestSwap = 0 /\ calls.setCostOutputToken = 0

\* C14: the route every getBestSwap query yields references the snapshot that
\* was current when handleAmountChange started the query, also when
\* fetchPools has replaced the snapshot since.
C14_SnapshotConsistency ==
  \A c \in CallIds :
    hac[c].resultId # 0 =>
      /\ hac[c].routeSnapshot = hac[c].snapshot
      /\ hac[c].snapshot >= 1 /\ hac[c].snapshot <= snapshot

\* a query started on snapshot 1 has ended with a route while the cache
\* holds snapshot 2
C14_Witness ==
  \E c \in CallIds :
    /\ hac[c].resultId # 0 /\ hac[c].returnAmount > 0
    /\ hac[c].snapshot = 1 /\ hac[c].routeSnapshot = 1
    /\ snapshot = 2

\* C15: getBestSwap is never awaited with a fixed-point amount of zero.
C15_NoZeroQuery ==
  \A c \in CallIds : hac[c].pc = "awaitSwap" => hac[c].scaled # 0

Flags == <<trading, confirming>>

\* C16: with at most one trade in flight (trade() was never called while the
\* executor or the confirmation of another trade was awaited), every step that
\* changes trading or confirming is the start of trade() from (false,false) to (true,true), the
\* return of the submission from (true,true) to (true,false), onTxConfirmed
\* or onTxFailed from (true,false) to (false,false), or the failure of the
\* submission from (true,true) to (false,false).
C16_ExecutionStateMachine ==
  [][ ( /\ \A t \in TradeIds : trd'[t].alone
        /\ Flags' # Flags )
      => \E t \in TradeIds :
           \/ /\ trd[t].pc = "idle" /\ trd'[t].pc \in {"awaitExec", "threw"}
              /\ Flags = <<FALSE, FALSE>> /\ Flags' = <<TRUE, TRUE>>
           \/ /\ trd[t].pc = "awaitExec" /\ trd'[t].pc = "submitted"
              /\ Flags = <<TRUE, TRUE>> /\ Flags' = <<TRUE, FALSE>>
           \/ /\ trd[t].pc = "submitted" /\ trd'[t].pc \in {"confirmed", "reverted"}
              /\ Flags = <<TRUE, FALSE>> /\ Flags' = <<FALSE, FALSE>>
           \/ /\ trd[t].pc = "awaitExec" /\ trd'[t].pc = "failed"
              /\ Flags = <<TRUE, TRUE>> /\ Flags' = <<FALSE, FALSE>> ]_vars

\* a transaction is submitted and not yet confirmed, after a quote completed
C16_Witness ==
  /\ Flags = <<TRUE, FALSE>>
  /\ \E t \in TradeIds : trd[t].pc = "submitted"
  /\ \E c \in CallIds : hac[c].pc = "done" /\ hac[c].path = "routed"

\* C17: the step that ends a trade() call without a submitted transaction
\* (an exception before the executor is called, or the executor's rejection)
\* leaves trading = confirming = false.
C17_IdleAfterFailedTrade ==
  [][ \A t \in TradeIds :
        (trd'[t].pc # trd[t].pc /\ trd'[t].pc \in {"threw", "failed"})
        => (trading' = FALSE /\ confirming' = FALSE) ]_vars

\* C18: when the first handleAmountChange call of a behaviour, a routed one,
\* has ended in an exception and nothing else has written the quote (no other
\* call, no user edit, no updateTradeAmounts), then sorReturn, both displayed
\* amounts, priceImpact, pools and validationErrors.highPriceImpact are as
\* they were before the call started, which is as constructed.
C18_FailedQuoteKeepsState ==
  ( /\ hac[1].pc = "failed" /\ hac[1].path = "routed"
    /\ \A c \in CallIds : c > 1 => hac[c].pc = "idle"
    /\ edits = 0
    /\ \A u \in UpdateIds : uta[u].pc = "idle" )
  => /\ sorReturn = InitialSorReturn
     /\ tokenInAmountInput = hac[1].amount
     /\ tokenOutAmountInput = <<>>
     /\ priceImpact = 0
     /\ pools = 0
     /\ validationErrors.highPriceImpact = FALSE

\* C19: in every reachable state sorReturn.result.swaps is empty exactly when
\* sorReturn.hasSwaps is false, and sorReturn.returnAmount is zero exactly
\* when sorReturn.hasSwaps is false.
C19_RouteResultInvariant ==
  /\ (sorReturn.result.swaps = <<>>) <=> ~sorReturn.hasSwaps
  /\ (sorReturn.returnAmount = 0) <=> ~sorReturn.hasSwaps

\* C20: when the submission of a routed swap returns, in a behaviour without
\* user edits, the quote txHandler stores in the transaction record has
\* minimumOutAmount (swapIn) or maximumInAmount (swapOut) equal to the limit
\* the executor was called with.
C20_QuoteIsSubmittedLimit ==
  [][ \A t \in TradeIds :
        ( /\ trd[t].pc = "awaitExec" /\ trd'[t].pc = "submitted"
          /\ trd[t].fn \in {"swapIn", "swapOut"}
          /\ edits' = 0 )
        => LET record == transactions'[Len(transactions')]
           IN /\ record.id = t
              /\ trd[t].fn = "swapIn" =>
                   record.quote.minimumOutAmount = trd[t].limit
              /\ trd[t].fn = "swapOut" =>
                   record.quote.maximumInAmount = trd[t].limit ]_vars

\* C21: in the step that invokes getBestSwap, the token of the most recent
\* setCostOutputToken call is the variable-side token of that query
\* (tokenOut for exact-in, tokenIn for exact-out).
C21_CostTokenOfQuery ==
  [][ \A c \in CallIds :
        (hac[c].pc = "awaitCost" /\ hac'[c].pc = "awaitSwap")
        => costOutputToken' =
             IF hac[c].exactIn THEN hac[c].tokenOut ELSE hac[c].tokenIn ]_vars

\* C23: no step of a handleAmountChange or updateTradeAmounts call changes
\* the amount of the side that exactIn names as edited when the step is
\* taken.
C23_EditedSideKept ==
  [][ (hac' # hac \/ uta' # uta)
      => IF exactIn
         THEN tokenInAmountInput' = tokenInAmountInput
         ELSE tokenOutAmountInput' = tokenOutAmountInput ]_vars

\* C22: the mount callback passes to injectTokens exactly the chosen
\* addresses that are non-empty and unknown to getToken; the SorManager does
\* not exist until injectTokens has resolved; no handleAmountChange call has
\* started before a fetchPools was triggered; and the callback's own
\* handleAmountChange call starts only after initSor has run.
C22_MountOrdering ==
  /\ mount.pc # "unmounted"
     => { mount.unknownAssets[i] : i \in DOMAIN mount.unknownAssets }
        = { a \in {tokenInAddressInput, tokenOutAddressInput} :
              a # "" /\ a \notin ListedTokens }
  /\ mount.pc \in {"unmounted", "awaitInject", "injectFailed"}
     => ~sorManager /\ fetching = 0 /\ \A c \in CallIds : hac[c].pc = "idle"
  /\ (\E c \in CallIds : hac[c].pc # "idle") => fetching + snapshot >= 1
  /\ mount.call # 0
     => /\ sorManager
        /\ hac[mount.call].pc # "idle"
        /\ mount.pc \in {"awaitAmounts", "mounted", "failed"}

\* C22 witness: a page mounted with an unknown token whose callback ran to
\* its end with a routed quote.
C22_Witness ==
  /\ mount.pc = "mounted"
  /\ mount.unknownAssets # <<>>
  /\ Len(mount.unknownAssets) < Len(AllAssets)
  /\ hac[mount.call].path = "routed"

\* C24: every trade() call that has been made has invoked exactly one
\* executor, once: wrap with the tokenOut address as wrapper when wrapType is
\* Wrap, unwrap with the tokenIn address when it is Unwrap, swapIn when it is
\* NonWrap and exactIn is true, swapOut when NonWrap and exactIn is false.
C24_TradeDispatch ==
  \A t \in TradeIds :
    trd[t].pc # "idle"
    => /\ trd[t].executorCalls = 1
       /\ trd[t].fn = IF wrapType = "Wrap" THEN "wrap"
                      ELSE IF wrapType = "Unwrap" THEN "unwrap"
                      ELSE IF exactIn THEN "swapIn" ELSE "swapOut"
       /\ wrapType = "Wrap" => trd[t].wrapper = tokenOutAddressInput
       /\ wrapType = "Unwrap" => trd[t].wrapper = tokenInAddressInput

\* formatFixed's own textual form: a whole part without a superfluous
\* leading zero and, when decimals > 0, a fraction part of one or more digits
\* with no trailing zero other than a lone "0"
InFormatFixedForm(a, decimals) ==
  LET whole    == WholePart(a)
      fraction == FractionPart(a)
  IN /\ Len(whole) > 0
     /\ Len(whole) > 1 => whole[1] # "0"
     /\ Cardinality(DotPositions(a)) = (IF decimals = 0 THEN 0 ELSE 1)
     /\ decimals > 0
        => /\ Len(fraction) > 0
           /\ Len(fraction) > 1 => fraction[Len(fraction)] # "0"

\* C25 as stated: whenever parseFixed accepts the amount, formatting the
\* fixed-point value back yields the very same string.
C25_RoundTripText ==
  conversion.pc = "formatted" => conversion.text = conversion.amount

\* C25 amended: whenever parseFixed accepts the amount, the string formatted
\* back denotes the same fixed-point value (no precision loss), and it is
\* the same string when the amount already has formatFixed's textual form.
C25_RoundTripValue ==
  conversion.pc = "formatted"
  => /\ ParseFixed(conversion.text, conversion.decimals) = conversion.fixed
     /\ InFormatFixedForm(conversion.amount, conversion.decimals)
        => conversion.text = conversion.amount

\* C25 witness: an amount with a fraction that went through both
\* conversions and came back as the same string.
C25_Witness ==
  /\ conversion.pc = "formatted"
  /\ conversion.fixed % Pow10(conversion.decimals) # 0
  /\ conversion.text = conversion.amount

\* C26: in a finished routed quote on mainnet with wstETH as either leg, the
\* amount calcPriceImpact was applied to is the route's return amount
\* converted by convertStEthWrap; otherwise it is the return amount itself.
C26_WrappedCollateralAdjustment ==
  \A c \in CallIds :
    (hac[c].pc = "done" /\ hac[c].piAmount > 0)
    => hac[c].piAmount =
         IF isMainnet /\ wstETH \in {hac[c].tokenIn, hac[c].tokenOut}
         THEN convertStEthWrap(hac[c].returnAmount, TRUE)
         ELSE hac[c].returnAmount

\* C29: the value calcPriceImpact returned to a finished routed quote is
\* ((fixed * 10^decimals) div result) * ONE div spot - ONE, each division
\* truncating, where fixed is the entered amount scaled by the decimals of
\* its own token, result the adjusted return amount and decimals those of
\* the result's token (tokenOut for exact-in, tokenIn for exact-out).
C29_PriceImpactFormula ==
  \A c \in CallIds :
    LET k        == hac[c]
        fixedDec == getTokenDecimals(IF k.exactIn THEN k.tokenIn ELSE k.tokenOut)
        decimals == getTokenDecimals(IF k.exactIn THEN k.tokenOut ELSE k.tokenIn)
        fixed    == ParseFixed(k.amount, fixedDec)
        result   == adjustedPiAmount(k.returnAmount, k.tokenOut)
    IN (k.pc = "done" /\ k.piAmount > 0)
       => /\ k.piAmount = result
          /\ k.calc = ((((fixed * Pow10(decimals)) \div result) * ONE)
                       \div k.marketSp) - ONE

\* C29 witness: an exact-out quote finished with an impact whose two
\* divisions both truncate.
C29_Witness ==
  \E c \in CallIds :
    /\ hac[c].pc = "done" /\ hac[c].piAmount > 0 /\ ~hac[c].exactIn
    /\ (hac[c].scaled * Pow10(getTokenDecimals(hac[c].tokenIn)))
         % hac[c].piAmount # 0
    /\ hac[c].calc # calcPriceImpactOnce(getTokenDecimals(hac[c].tokenIn),
                                         hac[c].piAmount, hac[c].scaled,
                                         hac[c].marketSp)

\* C30: in the step in which getWrapOutput resolves, the derived side
\* becomes the formatted getWrapOutput(wrapper, type, entered amount) with
\* wrapper = tokenOut for Wrap and tokenIn for Unwrap, type = wrapType when
\* the input side is edited and its opposite when the output side is, and
\* the edited side shows the entered amount.
C30_WrapQuotingDirection ==
  [][ \A c \in CallIds :
        (hac[c].pc = "awaitWrap" /\ hac'[c].pc = "done")
        => LET wrapper  == IF wrapType = "Wrap" THEN tokenOutAddressInput
                           ELSE tokenInAddressInput
               opposite == IF wrapType = "Wrap" THEN "Unwrap" ELSE "Wrap"
               dIn      == getTokenDecimals(tokenInAddressInput)
               dOut     == getTokenDecimals(tokenOutAddressInput)
           IN IF exactIn
              THEN /\ tokenInAmountInput' = hac[c].amount
                   /\ tokenOutAmountInput' =
                        FormatFixed(getWrapOutput(wrapper, wrapType,
                                      ParseFixed(hac[c].amount, dIn)), dIn)
              ELSE /\ tokenOutAmountInput' = hac[c].amount
                   /\ tokenInAmountInput' =
                        FormatFixed(getWrapOutput(wrapper, opposite,
                                      ParseFixed(hac[c].amount, dOut)), dOut)
    ]_vars

\* C30 witness: a wrap of stETH quoted from the output side has finished
\* with an input that differs from the entered output.
C30_Witness ==
  \E c \in CallIds :
    /\ hac[c].pc = "done" /\ hac[c].path = "wrap" /\ ~hac[c].exactIn
    /\ hac[c].tokenOut = wstETH
    /\ tokenOutAmountInput = hac[c].amount
    /\ tokenInAmountInput # <<>>
    /\ ParseFixed(tokenInAmountInput, 2) > ParseFixed(tokenOutAmountInput, 2)

\* C27: the limit trade() passes to swapIn / swapOut for a routed quote is
\* computed from the route's exact return amount (getMinOut of it for
\* swapIn, getMaxIn of it for swapOut), and the other amount is the user's
\* entry scaled exactly.
C27_LimitsFromExactAmounts ==
  \A t \in TradeIds :
    (trd[t].pc = "awaitExec" /\ sorReturn.hasSwaps)
    => /\ trd[t].fn = "swapIn"
          => /\ trd[t].limit = getMinOut(sorReturn.returnAmount)
             /\ trd[t].amountIn = tokenInAmountScaled
       /\ trd[t].fn = "swapOut"
          => /\ trd[t].limit = getMaxIn(sorReturn.returnAmount)
             /\ trd[t].amountOut = tokenOutAmountScaled

\* C28: no operation of the other instance changes the highPriceImpact flag
\* or the submission error that this instance shows.
C28_InstanceIsolation ==
  [][ otherInstance' # otherInstance
      => UNCHANGED <<validationErrors, submissionError>> ]_vars

\* the handleAmountChange calls that start in a step
StartedCalls == {c \in CallIds : hac[c].pc = "idle" /\ hac'[c].pc # "idle"}

\* C31: the step in which a fetchPools call completes starts exactly one
\* handleAmountChange call when sorConfig.handleAmountsOnFetchPools is true
\* and none when it is false; a fetchPools call made while sorManager is
\* undefined changes nothing of the instance.
C31_RequoteOnPoolRefresh ==
  [][ /\ snapshot' # snapshot
         => Cardinality(StartedCalls)
              = (IF handleAmountsOnFetchPools THEN 1 ELSE 0)
      /\ calls'.fetchPoolsWithoutManager # calls.fetchPoolsWithoutManager
         => /\ ~sorManager
            /\ UNCHANGED <<props, amounts, manager, quote, exec, poolsLoading,
                           hac, uta, trd, fetching, nextId>> ]_vars

\* C31 witness: with handleAmountsOnFetchPools false a fetch has completed
\* and no call was ever started, after a fetchPools call that came too early.
C31_Witness ==
  /\ ~handleAmountsOnFetchPools
  /\ snapshot > 0
  /\ calls.fetchPoolsWithoutManager > 0
  /\ \A c \in CallIds : hac[c].pc = "idle"

\* C32: poolsLoading is true exactly as long as no fetchPools call has
\* completed successfully, and once false it stays false.
C32_PoolsLoading ==
  /\ [](poolsLoading = (snapshot = 0))
  /\ [][~poolsLoading => ~poolsLoading']_vars

\* C32 witness: a second fetch is under way after the first one completed,
\* and poolsLoading is false.
C32_Witness ==
  /\ snapshot > 0
  /\ fetching > 0
  /\ ~poolsLoading

\* C33: a submitted transaction's trade eventually sees trading false, and
\* while its transaction is submitted and neither onTxConfirmed nor onTxFailed
\* fired for it, trading is true and confirming is false.
C33_CompletionTracking ==
  /\ [](\A t \in TradeIds : trd[t].pc = "submitted" => trading /\ ~confirming)
  /\ \A t \in 1..MaxOverlap : (trd[t].pc = "submitted") ~> ~trading

\* C35: confirming implies trading.
C35_ConfirmingImpliesTrading == confirming => trading

NonRoutedPaths == {"zero", "noToken", "wrap", "noPools"}

FrameOfNonRouted ==
  <<validationErrors, submissionError, pools, trading, confirming, latestTxHash>>

\* C36: a step of a handleAmountChange call on the zero-amount, missing-token,
\* wrap or no-pool-data path leaves validationErrors, submissionError, pools,
\* trading, confirming and latestTxHash unchanged; a step of handleAmountChange
\* that changes pools or validationErrors is the completion of a routed call.
C36_NonRoutedFrame ==
  [][ /\ \A c \in CallIds :
           (hac'[c] # hac[c] /\ hac'[c].path \in NonRoutedPaths)
           => UNCHANGED FrameOfNonRouted
      /\ ( /\ hac' # hac
           /\ (pools' # pools \/ validationErrors' # validationErrors) )
         => \E c \in CallIds :
              /\ hac[c].pc # "done" /\ hac'[c].pc = "done"
              /\ hac'[c].path = "routed" ]_vars

\* a call has ended on a non-routed path after a routed quote had set the
\* flag and the pools, which are still set
C36_Witness ==
  /\ validationErrors.highPriceImpact
  /\ pools # 0
  /\ hac[1].pc = "done" /\ hac[1].path = "routed"
  /\ hac[2].pc = "done" /\ hac[2].path \in NonRoutedPaths

\* C37: when no handleAmountChange call is in progress and a routed quote has
\* completed, pools is the selectedPools of the getBestSwap call whose result
\* is the current sorReturn.
C37_PoolsOfCurrentRoute ==
  ( /\ NoCallInProgress
    /\ \E c \in CallIds : hac[c].pc = "done" /\ hac[c].path = "routed" )
  => pools = sorReturn.result.id

\* C38: an exit call that has ended after its queryExit returned has sent
\* the transaction that queryExit built for its params, and an exit call whose
\* queryExit failed has sent none.
C38_ExitSendsWhatItQueried ==
  \A i \in ExitIds :
    (ExitOp(i).kind = "exit" /\ ExitOp(i).pc \in {"sent", "threw"})
    => IF ExitOp(i).queried
       THEN /\ ExitOp(i).sent = ExitOp(i).built
            /\ ExitOp(i).built = buildExitExactBPTIn(ExitOp(i).params)
       ELSE ExitOp(i).sent = NoExitRes

====
